---- MODULE Spec2Model ----
(***************************************************************************)
(* Model of the configuration edit engine of bf6-settings-manager:         *)
(* ConfigManager (src/src/config_manager.py) and the FileProtector it      *)
(* calls (src/app/src/file_protector.py).                                  *)
(*                                                                         *)
(* A file is a sequence of tokens.  A token stands for one lexical unit of *)
(* the profile text: a byte-order mark, a whole key, one blank, one line   *)
(* terminator, one digit, one dot.  The regular expression of a setting is *)
(* evaluated token by token, as re.sub / re.search evaluate it character   *)
(* by character.                                                           *)
(***************************************************************************)
EXTENDS Integers, Sequences, FiniteSets, TLC

\* ------------------------------------------------------------------ bounds
MaxLines == 2        \* lines of the profile file
MaxTime == 1         \* seconds that may pass between two calls
MaxExtensions == 2   \* extension blocks of an EDID value
MaxClicks == 2       \* clicks on the apply button
MaxInstances == 2    \* device instances of a display
MaxWait == 2         \* the largest max_wait_time, in check intervals

\* ------------------------------------------------------------------ tokens
BOM == "BOM"
SP == "SP"
LF == "LF"
CRLF == "CRLF"
DOT == "DOT"
Digits == {"0", "1"}
Signs == {"-", "+"}
\* What \s matches: a blank, \n, and \r\n (both of its characters).
Whitespace == {SP, LF, CRLF}

\* ---------------------------------------------------------------- registry
\* SETTINGS: setting id -> key and description (two of the thirteen entries).
SettingIds == {"weapon_dof", "hdr_peak_brightness"}

SETTINGS ==
  [id \in SettingIds |->
     IF id = "weapon_dof"
     THEN [key |-> "GstRender.WeaponDOF", description |-> "Weapon Depth of Field"]
     ELSE [key |-> "GstRender.DisplayMappingHdr10PeakLuma",
           description |-> "HDR Peak Brightness (nits)"]]

\* A key of the profile that no setting registers.
OtherKey == "GstRender.Brightness"

\* ------------------------------------------------------------ text helpers
RECURSIVE SkipWhile(_, _, _)
\* The first position >= i of s whose token is not in S (Len(s)+1 if none):
\* where a greedy \s+ or \d* starting at i stops.
SkipWhile(s, i, S) ==
  IF i <= Len(s) /\ s[i] \in S THEN SkipWhile(s, i + 1, S) ELSE i

Slice(s, a, b) == IF a > b THEN <<>> ELSE SubSeq(s, a, b)

\* ConfigSetting._create_pattern: (key\s+)([-+]?\d+\.?\d*) tried at position
\* i of s.  ok: whether it matches there; g1: group 1 (key and blanks);
\* g2: group 2 (the numeric literal); end: the position after the match.
MatchAt(s, i, key) ==
  LET ws == SkipWhile(s, i + 1, Whitespace)
      sg == IF ws <= Len(s) /\ s[ws] \in Signs THEN ws + 1 ELSE ws
      d1 == SkipWhile(s, sg, Digits)
      dt == IF d1 <= Len(s) /\ s[d1] = DOT THEN d1 + 1 ELSE d1
      d2 == SkipWhile(s, dt, Digits)
  IN  [ok  |-> i <= Len(s) /\ s[i] = key /\ ws > i + 1 /\ d1 > sg,
       g1  |-> Slice(s, i, ws - 1),
       g2  |-> Slice(s, ws, d2 - 1),
       end |-> d2]

\* The positions of s where the pattern of key matches, as re.finditer
\* yields them (non-overlapping, left to right).
RECURSIVE MatchesFrom(_, _, _)
MatchesFrom(s, i, key) ==
  IF i > Len(s) THEN <<>>
  ELSE LET m == MatchAt(s, i, key)
       IN  IF m.ok THEN <<i>> \o MatchesFrom(s, m.end, key)
           ELSE MatchesFrom(s, i + 1, key)

RECURSIVE SubFrom(_, _, _, _)
\* re.sub(pattern, r"\g<1>" + new_value, s, flags=re.MULTILINE) from position
\* i on: every non-overlapping match, left to right, becomes group 1
\* followed by new_value; every other token is copied.
SubFrom(s, i, key, new_value) ==
  IF i > Len(s) THEN <<>>
  ELSE LET m == MatchAt(s, i, key)
       IN  IF m.ok
           THEN m.g1 \o new_value \o SubFrom(s, m.end, key, new_value)
           ELSE <<s[i]>> \o SubFrom(s, i + 1, key, new_value)

RECURSIVE SubFromNoGroup(_, _, _, _)
SubFromNoGroup(s, i, key, new_value) ==
  IF i > Len(s) THEN <<>>
  ELSE LET m == MatchAt(s, i, key)
       IN  IF m.ok
           THEN new_value \o SubFromNoGroup(s, m.end, key, new_value)
           ELSE <<s[i]>> \o SubFromNoGroup(s, i + 1, key, new_value)

\* Mutant of ReSub: the replacement is new_value alone, without \g<1>.
ReSubNoGroup(key, new_value, s) == SubFromNoGroup(s, 1, key, new_value)

\* Mutant of ReSub: re.sub with count=1, the first match only.
ReSubFirstOnly(key, new_value, s) ==
  LET ms == MatchesFrom(s, 1, key)
  IN  IF ms = <<>> THEN s
      ELSE LET m == MatchAt(s, ms[1], key)
           IN  Slice(s, 1, ms[1] - 1) \o m.g1 \o new_value
                 \o Slice(s, m.end, Len(s))

ReSub(key, new_value, s) == SubFrom(s, 1, key, new_value)

None == <<"None">>

\* re.search(pattern, s, re.MULTILINE): group 2 of the first match, or None.
ReSearch(key, s) ==
  LET ms == MatchesFrom(s, 1, key)
  IN  IF ms = <<>> THEN None ELSE MatchAt(s, ms[1], key).g2

\* open(..., mode='r', encoding='utf-8-sig').read(): a leading byte-order
\* mark is dropped and, with universal newlines, \r\n is read as \n.
Decode(bytes) ==
  LET body == IF bytes # <<>> /\ bytes[1] = BOM THEN Tail(bytes) ELSE bytes
  IN  [i \in 1..Len(body) |-> IF body[i] = CRLF THEN LF ELSE body[i]]

\* open(..., mode='w', encoding='utf-8').write(): no byte-order mark is
\* written and \n is written as os.linesep, \r\n on the platform of win32api.
Encode(text) ==
  [i \in 1..Len(text) |-> IF text[i] = LF THEN CRLF ELSE text[i]]

\* get_current_values, lines 317-326: per registered setting the literal of
\* the first match in the decoded content, or None.
CurrentValues(bytes) ==
  [id \in SettingIds |-> ReSearch(SETTINGS[id].key, Decode(bytes))]

\* -------------------------------------------------------------- file system
\* A file: whether it exists, its bytes, its FILE_ATTRIBUTE_READONLY bit.
NoFile == [exists |-> FALSE, bytes |-> <<>>, ro |-> FALSE]

\* Paths: none, the profile, and its backup of second t
\* (<original>.backup_<timestamp>, lines 170-171).
NoPath == <<>>
ConfigPath == <<"PROFSAVE_profile">>
\* The path of a directory named PROFSAVE_profile under the settings
\* directory.
DirectoryPath == <<"PROFSAVE_profile", "directory">>

\* The settings directory <home>/Documents/Battlefield 6/settings: missing,
\* present, or present with a directory named PROFSAVE_profile below it.
SettingsRoots == {"missing", "present", "holds_directory"}
BackupPath(t) == <<"PROFSAVE_profile.backup", t>>

\* The lines a profile file is made of (the shape <key> <value> of the
\* profile format: an integer or a decimal literal, signed or not, after one
\* blank or more), each without its terminator.
Lines ==
  { <<SETTINGS["weapon_dof"].key, SP, "0">>,
    <<SETTINGS["weapon_dof"].key, SP, SP, "1">>,
    <<SETTINGS["hdr_peak_brightness"].key, SP, "-", "1", DOT, "0">>,
    <<OtherKey, SP, "1">> }

RECURSIVE Join(_, _)
\* The lines ls, each followed by the terminator term.
Join(ls, term) ==
  IF ls = <<>> THEN <<>> ELSE Head(ls) \o <<term>> \o Join(Tail(ls), term)

\* The profile files a behaviour may start with: with or without a
\* byte-order mark, with \r\n or \n terminators, of 1..MaxLines lines.
FilesOf(encodings) ==
  { (IF enc.bom THEN <<BOM>> ELSE <<>>) \o Join(ls, enc.term) :
      enc \in encodings,
      ls \in UNION { [1..n -> Lines] : n \in 1..MaxLines } }

ProfileFiles ==
  FilesOf({ [bom |-> TRUE, term |-> CRLF], [bom |-> FALSE, term |-> CRLF],
            [bom |-> FALSE, term |-> LF] })

\* The files the two-call behaviours start with.
RepeatFiles == FilesOf({ [bom |-> TRUE, term |-> CRLF] })

\* The requests a caller may pass: setting id -> pre-formatted value.  The
\* GUI sends integers as plain digits and floats with a decimal part.
RequestIds == SettingIds \cup {"unknown_setting"}

ValuesOf(id) ==
  IF id = "weapon_dof" THEN { <<"0">>, <<"1">> }
  ELSE IF id = "hdr_peak_brightness" THEN { <<"0", DOT, "0">> }
  ELSE { <<"1">> }

Requests ==
  UNION { { r \in [ids -> UNION { ValuesOf(id) : id \in ids }] :
              \A id \in ids : r[id] \in ValuesOf(id) } :
          ids \in SUBSET RequestIds }

EmptyRequest == [id \in {} |-> <<>>]

NoResult ==
  [success |-> FALSE, message |-> "none", count |-> 0, changes |-> <<>>,
   backup_path |-> NoPath, config_path |-> NoPath, error |-> "none"]

\* ------------------------------------------------------------------- state
VARIABLES
  config_path,       \* ConfigManager.config_path: NoPath or ConfigPath
  target,            \* the profile file on disk
  temp,              \* the temporary file of the current call
  leaked,            \* temporary files of earlier calls still on disk
  backups,           \* timestamp -> the backup file of that second
  now,               \* the clock, in seconds
  pc,                \* position of the apply_settings coroutine
  settings_to_apply, \* argument of the call
  set_readonly,      \* argument of the call
  pending,           \* ids of settings_to_apply the loop has not visited
  backup_path,       \* local of apply_settings (a BackupPath, or NoPath)
  content,           \* local of apply_settings
  original_content,  \* local of apply_settings
  changes_made,      \* local of apply_settings
  was_readonly,      \* local of _atomic_write
  exc,               \* the exception in flight ("none" if none)
  result,            \* what the call returned
  calls,             \* number of calls started (0, 1 or 2)
  pre,               \* history: the path and the disk when the call started
  steps,             \* history: the steps of the call that completed, in order
  prev,              \* history: the result of the first call, the bytes after it
  current_values,    \* what get_current_values returned, once it was called
  protector,         \* the FileProtector operation under way, or the last one
  detector,          \* the EDID bytes read for a display, what the parse gave
  settings_root,     \* the directory find_config_file searches
  search,            \* history: the last find_config_file call
  gui,               \* MainWindow: the apply button and its click handlers
  scan,              \* the registry enumeration of get_peak_brightness
  waiter             \* the wait_for_game_to_close call under way

\* What the steps of the edit engine never touch.
extras == <<settings_root, search, gui, scan, waiter>>

vars ==
  <<config_path, target, temp, leaked, backups, now, pc, settings_to_apply,
    set_readonly, pending, backup_path, content, original_content,
    changes_made, was_readonly, exc, result, calls, pre, steps, prev,
    current_values, protector, detector, extras>>

disk == <<target, temp, leaked, backups>>
locals ==
  <<settings_to_apply, set_readonly, pending, backup_path, content,
    original_content, changes_made, was_readonly, exc>>

NoPre == [config_path |-> NoPath, target |-> NoFile, leaked |-> 0,
          backups |-> [t \in 0..MaxTime |-> NoFile]]
NoPrev == [called |-> FALSE, success |-> FALSE, message |-> "none",
           changes |-> <<>>, bytes |-> <<>>]

\* get_current_values, lines 311 and 330: the empty dict.
NoValues == [id \in {} |-> None]
NotRead == [called |-> FALSE, values |-> NoValues]

\* The FileProtector operation under way or returned.  op, pc: which, and
\* where it is; was_readonly, has_attrs: the locals of temporary_writable
\* (has_attrs: original_attrs is not None); ret: the value returned;
\* raised: the exception that reached the caller.  History: entry_ro, the
\* bit when the operation began; failed, what became of its attribute
\* calls; verified, whether the verifying read was made; body, how the
\* wrapped body ended.
NoProtector ==
  [op |-> "none", pc |-> "idle", was_readonly |-> FALSE, has_attrs |-> FALSE,
   ret |-> "none", raised |-> "none", entry_ro |-> FALSE, failed |-> "none",
   verified |-> FALSE, body |-> "none"]

\* The brightness detector before any EDID value is read.  found, nits: the
\* Optional[int] a parse returns (None: found FALSE).  History: reads, the
\* bytes the parse looked at, in order (in which extension, at which offset
\* of it, as what).
NotFound == [found |-> FALSE, nits |-> 0]
Found(n) == [found |-> TRUE, nits |-> n]
NoDetector ==
  [pc |-> "idle", edid_data |-> <<>>, brightness |-> NotFound, reads |-> <<>>]

\* No find_config_file call was made.  result: what the last call returned;
\* dropped: the cached path a call that found nothing took the place of.
NoSearch == [called |-> FALSE, result |-> NoPath, dropped |-> NoPath]
Searched(found, cached) ==
  [called |-> TRUE, result |-> found,
   dropped |-> IF found = NoPath THEN cached ELSE NoPath]

\* The main window.  game: the process id of a running bf6.exe, 0 when none
\* runs; button_disabled: apply_button.disabled; task: the handler task
\* each click created (pc: where it is; proc_info: what its process check
\* returned, 0 for None; path: how it ended); dialog: the process id the
\* last "Game is Running" dialog showed; status: the status line.  History:
\* in_flight, the handlers whose ConfigManager.apply_settings call has not
\* returned; owner, the handler whose call the edit engine is running.
Pids == {4, 8}
Handlers == 1..MaxClicks
NoTask == [pc |-> "none", proc_info |-> 0, path |-> "none"]
NoGui ==
  [game |-> 0, button_disabled |-> FALSE, task |-> [h \in Handlers |-> NoTask],
   dialog |-> 0, status |-> "none", in_flight |-> {}, owner |-> 0]

\* No registry enumeration under way.  registry: the displays under
\* SYSTEM\CurrentControlSet\Enum\DISPLAY as the enumeration finds them; i,
\* j: the indices of _get_brightness_sync and _check_display_brightness;
\* result: what get_peak_brightness returned.  History: examined, the
\* <<display, instance>> pairs whose Device Parameters key was opened.
NoScan ==
  [pc |-> "idle", registry |-> <<>>, i |-> 0, j |-> 0, result |-> NotFound,
   examined |-> {}]
\* No wait under way.  bounded, max_wait_time: the argument (None: bounded
\* FALSE); start_time: the local; clock: the time of the event loop; ret:
\* the value returned.  History: checked, whether a process check was made.
NoWaiter ==
  [pc |-> "idle", bounded |-> FALSE, max_wait_time |-> 0, start_time |-> 0,
   clock |-> 0, ret |-> FALSE, checked |-> FALSE]

\* ConfigManager.__init__: no path is cached.  The disk holds a profile
\* file of files, read-only or not, or none; the registry holds an EDID
\* value of inputs.
InitWith(files, inputs, roots) ==
  /\ config_path = NoPath
  /\ target \in {NoFile} \cup
       { [exists |-> TRUE, bytes |-> b, ro |-> r] :
           b \in files, r \in BOOLEAN }
  /\ temp = NoFile
  /\ leaked = 0
  /\ backups = [t \in 0..MaxTime |-> NoFile]
  /\ now = 0
  /\ pc = "idle"
  /\ settings_to_apply = EmptyRequest
  /\ set_readonly = FALSE
  /\ pending = {}
  /\ backup_path = NoPath
  /\ content = <<>>
  /\ original_content = <<>>
  /\ changes_made = <<>>
  /\ was_readonly = FALSE
  /\ exc = "none"
  /\ result = NoResult
  /\ calls = 0
  /\ pre = NoPre
  /\ steps = <<>>
  /\ prev = NoPrev
  /\ current_values = NotRead
  /\ protector = NoProtector
  /\ detector \in { [NoDetector EXCEPT !.edid_data = d] : d \in inputs }
  /\ settings_root \in roots
  /\ target.exists => settings_root # "missing"
  /\ search = NoSearch
  /\ gui = NoGui
  /\ scan = NoScan
  /\ waiter = NoWaiter

Init == InitWith(ProfileFiles, {<<>>}, {"present"})
InitRepeat == InitWith(RepeatFiles, {<<>>}, {"present"})

\* ---------------------------------------------------------------- helpers
Log(step) == steps' = Append(steps, step)

\* The except clause of apply_settings takes over with exception e.
Raise(e) == /\ exc' = e
            /\ pc' = "except"

\* FileProtector.is_readonly: the bit, False when the attributes cannot be
\* read (lines 84-89).
is_readonly(f) == f.exists /\ f.ro

\* ---------------------------------------------------------------- actions
\* Mutant of FindConfigFile: a search that finds nothing leaves the cached
\* path as it was.
FindConfigFileKeepsPath ==
  /\ pc = "idle"
  /\ LET matches ==
           (IF target.exists THEN {ConfigPath} ELSE {})
             \cup (IF settings_root = "holds_directory"
                   THEN {DirectoryPath} ELSE {})
     IN  \E found \in IF settings_root = "missing" \/ matches = {}
                       THEN {NoPath} ELSE matches :
           /\ config_path' = IF found = NoPath THEN config_path ELSE found
           /\ search' = Searched(found, config_path)
  /\ UNCHANGED <<disk, now, pc, locals, result, calls, pre, steps, prev,
                 current_values, protector, detector, settings_root, gui,
                 scan, waiter>>

\* ConfigManager.find_config_file, lines 144-158: None when the settings
\* directory does not exist; otherwise the first entry named
\* PROFSAVE_profile that rglob yields under it, the profile file or a
\* directory of that name, in the order of the directory walk; None when
\* there is no such entry.  The result is cached and returned.
FindConfigFile ==
  /\ pc = "idle"
  /\ LET matches ==
           (IF target.exists THEN {ConfigPath} ELSE {})
             \cup (IF settings_root = "holds_directory"
                   THEN {DirectoryPath} ELSE {})
     IN  \E found \in IF settings_root = "missing" \/ matches = {}
                       THEN {NoPath} ELSE matches :
           /\ config_path' = found
           /\ search' = Searched(found, config_path)
  /\ UNCHANGED <<disk, now, pc, locals, result, calls, pre, steps, prev,
                 current_values, protector, detector, settings_root, gui,
                 scan, waiter>>

\* The user deletes the profile file.
ExternalDelete ==
  /\ pc = "idle"
  /\ target.exists
  /\ target' = NoFile
  /\ UNCHANGED <<config_path, temp, leaked, backups, now, pc, locals, result,
                 calls, pre, steps, prev, current_values, protector, detector,
                 extras>>

\* Mutant of Enter: the call goes on without looking for the file.
EnterUnchecked(req, ro) ==
  /\ calls' = calls + 1
  /\ settings_to_apply' = req
  /\ set_readonly' = ro
  /\ pre' = [config_path |-> config_path, target |-> target,
             leaked |-> leaked + (IF temp.exists THEN 1 ELSE 0),
             backups |-> backups]
  /\ steps' = <<>>
  /\ result' = NoResult
  /\ pc' = "backup"

\* apply_settings, lines 195-199, called with req and ro: without a cached
\* path, or with the path not on disk, it returns "Config file not found".
Enter(req, ro) ==
  /\ calls' = calls + 1
  /\ settings_to_apply' = req
  /\ set_readonly' = ro
  /\ pre' = [config_path |-> config_path, target |-> target,
             leaked |-> leaked + (IF temp.exists THEN 1 ELSE 0),
             backups |-> backups]
  /\ steps' = <<>>
  /\ IF config_path = NoPath \/ ~target.exists
     THEN /\ result' = [NoResult EXCEPT !.message = "not_found"]
          /\ pc' = "done"
     ELSE /\ result' = NoResult
          /\ pc' = "backup"

\* The first call of a behaviour, with any request.
ApplyStart ==
  /\ pc = "idle"
  /\ calls = 0
  /\ \E req \in Requests, ro \in BOOLEAN : Enter(req, ro)
  /\ UNCHANGED <<config_path, disk, now, pending, backup_path, content,
                 original_content, changes_made, was_readonly, exc, prev,
                 current_values, protector, detector, extras>>

\* The first call has returned and the caller calls again with the same
\* arguments, in the same second or some seconds later.  A temporary file
\* the first call left behind is from now on one of the leaked ones.
ApplyAgain ==
  /\ pc = "done"
  /\ calls = 1
  /\ prev' = [called |-> TRUE, success |-> result.success,
              message |-> result.message, changes |-> result.changes,
              bytes |-> target.bytes]
  /\ now' \in now..MaxTime
  /\ Enter(settings_to_apply, set_readonly)
  /\ pending' = {}
  /\ backup_path' = NoPath
  /\ content' = <<>>
  /\ original_content' = <<>>
  /\ changes_made' = <<>>
  /\ was_readonly' = FALSE
  /\ exc' = "none"
  /\ temp' = NoFile
  /\ leaked' = leaked + (IF temp.exists THEN 1 ELSE 0)
  /\ UNCHANGED <<config_path, target, backups, current_values, protector,
                 detector, extras>>

\* Mutant of CreateBackup: the path is returned but the copy is never made.
CreateBackupNoCopy ==
  /\ pc = "backup"
  /\ backup_path' = BackupPath(now)
  /\ pc' = "read"
  /\ Log("backup")
  /\ UNCHANGED <<config_path, disk, now, settings_to_apply, set_readonly,
                 pending, content, original_content, changes_made,
                 was_readonly, exc, result, calls, pre, prev, current_values,
                 protector, detector, extras>>

\* create_backup, lines 170-178: shutil.copy2 copies bytes and attributes to
\* <original>.backup_<timestamp>.  The copy may fail, and it fails when a
\* read-only backup of the same second is in the way.
CreateBackup ==
  /\ pc = "backup"
  /\ \/ /\ target.exists
        /\ ~is_readonly(backups[now])
        /\ backups' = [backups EXCEPT ![now] = target]
        /\ backup_path' = BackupPath(now)
        /\ pc' = "read"
        /\ Log("backup")
        /\ UNCHANGED exc
     \/ /\ Raise("copy")
        /\ UNCHANGED <<backups, backup_path, steps>>
  /\ UNCHANGED <<config_path, target, temp, leaked, now, settings_to_apply,
                 set_readonly, pending, content, original_content,
                 changes_made, was_readonly, result, calls, pre, prev,
                 current_values, protector, detector, extras>>

\* apply_settings, lines 205-210: the whole file is read and decoded.
ReadContent ==
  /\ pc = "read"
  /\ \/ /\ content' = Decode(target.bytes)
        /\ original_content' = Decode(target.bytes)
        /\ changes_made' = <<>>
        /\ pending' = DOMAIN settings_to_apply
        /\ pc' = "subst"
        /\ Log("read")
        /\ UNCHANGED exc
     \/ /\ Raise("read")
        /\ UNCHANGED <<content, original_content, changes_made, pending, steps>>
  /\ UNCHANGED <<config_path, disk, now, settings_to_apply, set_readonly,
                 backup_path, was_readonly, result, calls, pre, prev,
                 current_values, protector, detector, extras>>

\* Mutant of ApplySetting: an unknown id ends the loop (break for continue).
ApplySettingBreak ==
  /\ pc = "subst"
  /\ \E setting_id \in pending :
       IF setting_id \notin SettingIds
       THEN /\ pending' = {}
            /\ UNCHANGED <<content, changes_made, steps>>
       ELSE LET setting == SETTINGS[setting_id]
                new_value == settings_to_apply[setting_id]
                new_content == ReSub(setting.key, new_value, content)
            IN  /\ pending' = pending \ {setting_id}
                /\ Log("subst")
                /\ IF new_content # content
                   THEN /\ changes_made' =
                             Append(changes_made,
                                    <<setting.description, new_value>>)
                        /\ content' = new_content
                   ELSE UNCHANGED <<content, changes_made>>
  /\ UNCHANGED <<config_path, disk, now, pc, settings_to_apply, set_readonly,
                 backup_path, original_content, was_readonly, exc, result,
                 calls, pre, prev, current_values, protector, detector,
                 extras>>

\* Mutant of ApplySetting: a change is recorded for every registered
\* setting of the request, matched or not.
ApplySettingAlwaysRecords ==
  /\ pc = "subst"
  /\ \E setting_id \in pending :
       /\ pending' = pending \ {setting_id}
       /\ IF setting_id \notin SettingIds
          THEN UNCHANGED <<content, changes_made, steps>>
          ELSE LET setting == SETTINGS[setting_id]
                   new_value == settings_to_apply[setting_id]
               IN  /\ Log("subst")
                   /\ changes_made' =
                        Append(changes_made,
                               <<setting.description, new_value>>)
                   /\ content' = ReSub(setting.key, new_value, content)
  /\ UNCHANGED <<config_path, disk, now, pc, settings_to_apply, set_readonly,
                 backup_path, original_content, was_readonly, exc, result,
                 calls, pre, prev, current_values, protector, detector,
                 extras>>

\* apply_settings, lines 213-233: one iteration of the loop over the
\* request, in the order the caller's dict gives (any order).
ApplySetting ==
  /\ pc = "subst"
  /\ \E setting_id \in pending :
       /\ pending' = pending \ {setting_id}
       /\ IF setting_id \notin SettingIds
          THEN UNCHANGED <<content, changes_made, steps>>
          ELSE LET setting == SETTINGS[setting_id]
                   new_value == settings_to_apply[setting_id]
                   new_content == ReSub(setting.key, new_value, content)
               IN  /\ Log("subst")
                   /\ IF new_content # content
                      THEN /\ changes_made' =
                                Append(changes_made,
                                       <<setting.description, new_value>>)
                           /\ content' = new_content
                      ELSE UNCHANGED <<content, changes_made>>
  /\ UNCHANGED <<config_path, disk, now, pc, settings_to_apply, set_readonly,
                 backup_path, original_content, was_readonly, exc, result,
                 calls, pre, prev, current_values, protector, detector,
                 extras>>

\* Mutant of NoOpGuard: the guard is missing, the write always follows.
NoOpGuardMissing ==
  /\ pc = "subst"
  /\ pending = {}
  /\ pc' = "unprotect"
  /\ UNCHANGED <<config_path, disk, now, locals, result, calls, pre, steps,
                 prev, current_values, protector, detector, extras>>

\* apply_settings, lines 235-241: after the loop, unchanged content returns
\* "No changes applied" with the backup's path.
NoOpGuard ==
  /\ pc = "subst"
  /\ pending = {}
  /\ IF content = original_content
     THEN /\ result' = [NoResult EXCEPT !.message = "no_changes",
                                        !.backup_path = backup_path]
          /\ pc' = "done"
     ELSE /\ pc' = "unprotect"
          /\ UNCHANGED result
  /\ UNCHANGED <<config_path, disk, now, locals, calls, pre, steps, prev,
                 current_values, protector, detector, extras>>

\* Mutant of AtomicWriteUnprotect: the file is protected here, before the
\* write, instead of after it.
ProtectBeforeWrite ==
  /\ pc = "unprotect"
  /\ was_readonly' = is_readonly(target)
  /\ IF set_readonly
     THEN /\ target' = [target EXCEPT !.ro = TRUE]
          /\ Log("protect")
     ELSE UNCHANGED <<target, steps>>
  /\ pc' = "mkstemp"
  /\ UNCHANGED <<config_path, temp, leaked, backups, now, settings_to_apply,
                 set_readonly, pending, backup_path, content,
                 original_content, changes_made, exc, result, calls, pre, prev,
                 current_values, protector, detector, extras>>

\* _atomic_write, lines 273-276: a read-only target is made writable.
\* remove_readonly returns False, unheeded, when the platform refuses.
AtomicWriteUnprotect ==
  /\ pc = "unprotect"
  /\ was_readonly' = is_readonly(target)
  /\ IF is_readonly(target)
     THEN \/ /\ target' = [target EXCEPT !.ro = FALSE]
             /\ Log("unprotect")
          \/ UNCHANGED <<target, steps>>
     ELSE UNCHANGED <<target, steps>>
  /\ pc' = "mkstemp"
  /\ UNCHANGED <<config_path, temp, leaked, backups, now, settings_to_apply,
                 set_readonly, pending, backup_path, content,
                 original_content, changes_made, exc, result, calls, pre, prev,
                 current_values, protector, detector, extras>>

\* _atomic_write, lines 279-284: tempfile.mkstemp creates an empty file
\* beside the target; a failure here is raised before the try block.
MakeTemp ==
  /\ pc = "mkstemp"
  /\ \/ /\ temp' = [exists |-> TRUE, bytes |-> <<>>, ro |-> FALSE]
        /\ pc' = "write"
        /\ Log("mkstemp")
        /\ UNCHANGED exc
     \/ /\ Raise("mkstemp")
        /\ UNCHANGED <<temp, steps>>
  /\ UNCHANGED <<config_path, target, leaked, backups, now, settings_to_apply,
                 set_readonly, pending, backup_path, content,
                 original_content, changes_made, was_readonly, result, calls,
                 pre, prev, current_values, protector, detector, extras>>

\* _atomic_write, lines 288-289: the encoded content goes to the temporary
\* file; a failing write leaves a prefix of it there (none of it, or all
\* but its last token).
WriteTemp ==
  /\ pc = "write"
  /\ \/ /\ temp' = [temp EXCEPT !.bytes = Encode(content)]
        /\ pc' = "replace"
        /\ Log("write")
        /\ UNCHANGED exc
     \/ /\ \E n \in {0, Len(content) - 1} :
             temp' = [temp EXCEPT !.bytes = Slice(Encode(content), 1, n)]
        /\ exc' = "write"
        /\ pc' = "cleanup"
        /\ UNCHANGED steps
  /\ UNCHANGED <<config_path, target, leaked, backups, now, settings_to_apply,
                 set_readonly, pending, backup_path, content,
                 original_content, changes_made, was_readonly, result, calls,
                 pre, prev, current_values, protector, detector, extras>>

\* Mutant of AtomicReplace: the temporary file is copied over the target, and
\* a copy that fails leaves the target with part of it.
ReplaceByCopy ==
  /\ pc = "replace"
  /\ \/ /\ ~is_readonly(target)
        /\ target' = temp
        /\ temp' = NoFile
        /\ pc' = "protect"
        /\ Log("replace")
        /\ UNCHANGED exc
     \/ /\ exc' = "replace"
        /\ pc' = "cleanup"
        /\ target' = [target EXCEPT !.bytes = Slice(temp.bytes, 1, 1)]
        /\ UNCHANGED <<temp, steps>>
  /\ UNCHANGED <<config_path, leaked, backups, now, settings_to_apply,
                 set_readonly, pending, backup_path, content,
                 original_content, changes_made, was_readonly, result, calls,
                 pre, prev, current_values, protector, detector, extras>>

\* _atomic_write, line 292: os.replace renames the temporary file onto the
\* target in one step.  It may fail, and it fails on a read-only target.
AtomicReplace ==
  /\ pc = "replace"
  /\ \/ /\ ~is_readonly(target)
        /\ target' = temp
        /\ temp' = NoFile
        /\ pc' = "protect"
        /\ Log("replace")
        /\ UNCHANGED exc
     \/ /\ exc' = "replace"
        /\ pc' = "cleanup"
        /\ UNCHANGED <<target, temp, steps>>
  /\ UNCHANGED <<config_path, leaked, backups, now, settings_to_apply,
                 set_readonly, pending, backup_path, content,
                 original_content, changes_made, was_readonly, result, calls,
                 pre, prev, current_values, protector, detector, extras>>

\* _atomic_write, lines 295-301: on a failure the temporary file is
\* unlinked and the exception is raised again (line 299).  When os.unlink
\* fails the file stays, and the exception of os.unlink, raised inside the
\* except clause, is the one that leaves _atomic_write.
CleanupTemp ==
  /\ pc = "cleanup"
  /\ \/ /\ temp' = NoFile
        /\ UNCHANGED exc
     \/ /\ temp.exists
        /\ exc' = "unlink"
        /\ UNCHANGED temp
  /\ pc' = "except"
  /\ UNCHANGED <<config_path, target, leaked, backups, now, settings_to_apply,
                 set_readonly, pending, backup_path, content,
                 original_content, changes_made, was_readonly, result, calls,
                 pre, steps, prev, current_values, protector, detector,
                 extras>>

\* Mutant of Protect: a file that was read-only before the write is made
\* read-only again, whatever set_readonly says.
ProtectRestoresBit ==
  /\ pc = "protect"
  /\ IF set_readonly \/ was_readonly
     THEN /\ target' = [target EXCEPT !.ro = TRUE]
          /\ Log("protect")
     ELSE UNCHANGED <<target, steps>>
  /\ result' = [success |-> TRUE, message |-> "applied",
                count |-> Len(changes_made), changes |-> changes_made,
                backup_path |-> backup_path, config_path |-> config_path,
                error |-> "none"]
  /\ pc' = "done"
  /\ UNCHANGED <<config_path, temp, leaked, backups, now, locals, calls, pre,
                 prev, current_values, protector, detector, extras>>

\* Mutant of Protect: the bit is set only on a file that was read-only
\* before the call, instead of whenever the caller asks.
ProtectIfWasReadonly ==
  /\ pc = "protect"
  /\ IF set_readonly /\ was_readonly
     THEN \/ /\ target' = [target EXCEPT !.ro = TRUE]
             /\ Log("protect")
          \/ /\ Log("protect_failed")
             /\ UNCHANGED target
     ELSE UNCHANGED <<target, steps>>
  /\ result' = [success |-> TRUE, message |-> "applied",
                count |-> Len(changes_made), changes |-> changes_made,
                backup_path |-> backup_path, config_path |-> config_path,
                error |-> "none"]
  /\ pc' = "done"
  /\ UNCHANGED <<config_path, temp, leaked, backups, now, locals, calls, pre,
                 prev, current_values, protector, detector, extras>>

\* apply_settings, lines 246-256: after the write, set_readonly if asked
\* (FileProtector.set_readonly returns False, unheeded, when the platform
\* refuses: the attempt is logged as "protect_failed"), then the success
\* result.
Protect ==
  /\ pc = "protect"
  /\ IF set_readonly
     THEN \/ /\ target' = [target EXCEPT !.ro = TRUE]
             /\ Log("protect")
          \/ /\ Log("protect_failed")
             /\ UNCHANGED target
     ELSE UNCHANGED <<target, steps>>
  /\ result' = [success |-> TRUE, message |-> "applied",
                count |-> Len(changes_made), changes |-> changes_made,
                backup_path |-> backup_path, config_path |-> config_path,
                error |-> "none"]
  /\ pc' = "done"
  /\ UNCHANGED <<config_path, temp, leaked, backups, now, locals, calls, pre,
                 prev, current_values, protector, detector, extras>>

\* apply_settings, lines 258-263: any exception becomes a failure result
\* carrying its text.
Except ==
  /\ pc = "except"
  /\ result' = [NoResult EXCEPT !.message = "error", !.error = exc]
  /\ pc' = "done"
  /\ UNCHANGED <<config_path, disk, now, locals, calls, pre, steps, prev,
                 current_values, protector, detector, extras>>

\* The process dies in the middle of a call: its memory is gone, the disk
\* stays as it is, nothing more runs.
Crash ==
  /\ pc \notin {"idle", "done", "crashed"}
  /\ pc' = "crashed"
  /\ pending' = {}
  /\ backup_path' = NoPath
  /\ content' = <<>>
  /\ original_content' = <<>>
  /\ changes_made' = <<>>
  /\ was_readonly' = FALSE
  /\ exc' = "none"
  /\ UNCHANGED <<config_path, disk, now, settings_to_apply, set_readonly,
                 result, calls, pre, steps, prev, current_values, protector,
                 detector, extras>>

\* Mutant of GetCurrentValues: the read takes a backup of the file first.
GetCurrentValuesWithBackup ==
  /\ pc \in {"idle", "done"}
  /\ ~current_values.called
  /\ \/ /\ config_path # NoPath
        /\ target.exists
        /\ backups' = [backups EXCEPT ![now] = target]
        /\ current_values' =
             [called |-> TRUE, values |-> CurrentValues(target.bytes)]
     \/ /\ current_values' = [called |-> TRUE, values |-> NoValues]
        /\ UNCHANGED backups
  /\ UNCHANGED <<config_path, target, temp, leaked, now, pc, locals, result,
                 calls, pre, steps, prev, protector, detector, extras>>

\* get_current_values, lines 303-330, called between two calls of
\* apply_settings: without a cached path, with the path not on disk, or when
\* the read raises, it returns the empty dict; otherwise the value of every
\* registered setting.
GetCurrentValues ==
  /\ pc \in {"idle", "done"}
  /\ ~current_values.called
  /\ \/ /\ config_path # NoPath
        /\ target.exists
        /\ current_values' =
             [called |-> TRUE, values |-> CurrentValues(target.bytes)]
     \/ current_values' = [called |-> TRUE, values |-> NoValues]
  /\ UNCHANGED <<config_path, disk, now, pc, locals, result, calls, pre, steps,
                 prev, protector, detector, extras>>

Next ==
  \/ FindConfigFile
  \/ ExternalDelete
  \/ ApplyStart
  \/ CreateBackup
  \/ ReadContent
  \/ ApplySetting
  \/ NoOpGuard
  \/ AtomicWriteUnprotect
  \/ MakeTemp
  \/ WriteTemp
  \/ AtomicReplace
  \/ CleanupTemp
  \/ Protect
  \/ Except
  \/ Crash

\* One call of apply_settings, from any profile file.
Spec == Init /\ [][Next]_vars

NextRepeat ==
  \/ Next
  \/ ApplyAgain

\* Two calls of apply_settings in a row, with the same arguments.
SpecRepeat == InitRepeat /\ [][NextRepeat]_vars

NextRead ==
  \/ Next
  \/ GetCurrentValues

\* One call of apply_settings and one of get_current_values, before or after
\* it.
SpecRead == InitRepeat /\ [][NextRead]_vars

\* ----------------------------------------------------------- FileProtector
\* What a call of win32api.SetFileAttributes may do: write the attributes,
\* return without having changed them, or raise.
AttrOutcomes == {"ok", "no_effect", "raises"}

\* Whether a FileProtector operation may begin: none is under way, and
\* apply_settings is not running.
ProtectorFree == pc = "idle" /\ protector.pc \in {"idle", "returned"}

\* What of the state a FileProtector operation leaves alone.
ProtectorFrame ==
  UNCHANGED <<config_path, temp, leaked, backups, now, pc, locals, result,
              calls, pre, steps, prev, current_values, detector, extras>>

\* Mutant of ChangeBit: True is returned as soon as SetFileAttributes has
\* not raised, without reading the attributes again.
ChangeBitUnverified(op, bit) ==
  /\ ProtectorFree
  /\ \E get_ok \in BOOLEAN, set \in AttrOutcomes :
       LET written == get_ok /\ set = "ok"
           after == IF written THEN bit ELSE target.ro
       IN  /\ get_ok => target.exists
           /\ target' = [target EXCEPT !.ro = after]
           /\ protector' =
                [NoProtector EXCEPT
                   !.op = op,
                   !.pc = "returned",
                   !.ret = IF get_ok /\ set # "raises" THEN "true" ELSE "false",
                   !.entry_ro = target.ro,
                   !.failed = IF ~get_ok \/ set = "raises" THEN "raised"
                              ELSE IF set = "no_effect" THEN "no_effect"
                              ELSE "none",
                   !.verified = FALSE]
  /\ ProtectorFrame

\* set_readonly (lines 28-43, bit TRUE) and remove_readonly (lines 56-71,
\* bit FALSE): GetFileAttributes, SetFileAttributes with the bit changed,
\* GetFileAttributes again; the value returned is whether the second read
\* shows the bit as wanted, and False when any of the three calls raises.
ChangeBit(op, bit) ==
  /\ ProtectorFree
  /\ \E get_ok, verify_ok \in BOOLEAN, set \in AttrOutcomes :
       LET written == get_ok /\ set = "ok"
           reread == get_ok /\ set # "raises" /\ verify_ok
           after == IF written THEN bit ELSE target.ro
       IN  /\ get_ok => target.exists
           /\ target' = [target EXCEPT !.ro = after]
           /\ protector' =
                [NoProtector EXCEPT
                   !.op = op,
                   !.pc = "returned",
                   !.ret = IF reread /\ after = bit THEN "true" ELSE "false",
                   !.entry_ro = target.ro,
                   !.failed = IF ~reread THEN "raised"
                              ELSE IF set = "no_effect" THEN "no_effect"
                              ELSE "none",
                   !.verified = reread]
  /\ ProtectorFrame

SetReadonly == ChangeBit("set_readonly", TRUE)

RemoveReadonly == ChangeBit("remove_readonly", FALSE)

\* FileProtector.is_readonly, lines 84-89: the bit, or False when
\* GetFileAttributes raises.
IsReadonly ==
  /\ ProtectorFree
  /\ \E get_ok \in BOOLEAN :
       /\ get_ok => target.exists
       /\ protector' =
            [NoProtector EXCEPT
               !.op = "is_readonly",
               !.pc = "returned",
               !.ret = IF get_ok /\ target.ro THEN "true" ELSE "false",
               !.entry_ro = target.ro,
               !.failed = IF get_ok THEN "none" ELSE "raised"]
  /\ UNCHANGED target
  /\ ProtectorFrame

\* temporary_writable, lines 110-128, up to the yield: the attributes are
\* recorded (was_readonly False and original_attrs None when the read
\* raises); a read-only file is made writable.  SetFileAttributes of line
\* 125 is inside the try of the finally clause only: when it raises, the
\* finally clause runs on the still read-only file and the exception
\* reaches the caller, the body never having run.
TemporaryWritableEnter ==
  /\ ProtectorFree
  /\ \E get_ok \in BOOLEAN, clear \in AttrOutcomes :
       LET was == get_ok /\ target.ro
       IN  /\ get_ok => target.exists
           /\ ~was => clear = "ok"
           /\ IF was /\ clear = "raises"
              THEN /\ UNCHANGED target
                   /\ protector' =
                        [NoProtector EXCEPT
                           !.op = "temporary_writable",
                           !.pc = "returned",
                           !.was_readonly = TRUE,
                           !.has_attrs = TRUE,
                           !.raised = "platform",
                           !.entry_ro = target.ro,
                           !.failed = "raised"]
              ELSE /\ target' = IF was /\ clear = "ok"
                                THEN [target EXCEPT !.ro = FALSE]
                                ELSE target
                   /\ protector' =
                        [NoProtector EXCEPT
                           !.op = "temporary_writable",
                           !.pc = "body",
                           !.was_readonly = was,
                           !.has_attrs = get_ok,
                           !.entry_ro = target.ro,
                           !.failed = IF ~get_ok THEN "raised"
                                      ELSE IF was /\ clear = "no_effect"
                                           THEN "no_effect"
                                      ELSE "none"]
  /\ ProtectorFrame

\* Mutant of TemporaryWritableExit: the attributes are restored after the
\* body, without a finally clause: not when the body raises.
TemporaryWritableExitNoFinally ==
  /\ protector.pc = "body"
  /\ \E ending \in {"returned", "raised"}, restore \in AttrOutcomes :
       LET restores == /\ protector.was_readonly
                       /\ protector.has_attrs
                       /\ ending = "returned"
       IN  /\ ~restores => restore = "ok"
           /\ target' = IF restores /\ restore = "ok"
                        THEN [target EXCEPT !.ro = TRUE]
                        ELSE target
           /\ protector' =
                [protector EXCEPT
                   !.pc = "returned",
                   !.body = ending,
                   !.raised = IF ending = "raised" THEN "body" ELSE "none",
                   !.failed = IF @ # "none" \/ restore = "ok" THEN @
                              ELSE IF restore = "raises" THEN "raised"
                              ELSE "no_effect"]
  /\ ProtectorFrame

\* temporary_writable, lines 128-137: the wrapped body returns or raises;
\* the finally clause writes original_attrs back when the file was found
\* read-only (a failure of that write is logged); an exception of the body
\* goes on to the caller.
TemporaryWritableExit ==
  /\ protector.pc = "body"
  /\ \E ending \in {"returned", "raised"}, restore \in AttrOutcomes :
       LET restores == protector.was_readonly /\ protector.has_attrs
       IN  /\ ~restores => restore = "ok"
           /\ target' = IF restores /\ restore = "ok"
                        THEN [target EXCEPT !.ro = TRUE]
                        ELSE target
           /\ protector' =
                [protector EXCEPT
                   !.pc = "returned",
                   !.body = ending,
                   !.raised = IF ending = "raised" THEN "body" ELSE "none",
                   !.failed = IF @ # "none" \/ restore = "ok" THEN @
                              ELSE IF restore = "raises" THEN "raised"
                              ELSE "no_effect"]
  /\ ProtectorFrame

NextProtector ==
  \/ SetReadonly
  \/ RemoveReadonly
  \/ IsReadonly
  \/ TemporaryWritableEnter
  \/ TemporaryWritableExit

\* The operations of FileProtector on a profile file, one after another.
SpecProtector == Init /\ [][NextProtector]_vars

\* ------------------------------------------------------- BrightnessDetector
\* The size of an EDID block, and the least input with an extension block.
BlockSize == 128
MinEdidLength == 256

\* s[pos] of the code: bytes are indexed from 0.
ByteAt(s, pos) == s[pos + 1]

RECURSIVE IsqrtIn(_, _, _)
\* The integer r with lo <= r < hi and r*r <= s < (r+1)*(r+1).
IsqrtIn(s, lo, hi) ==
  IF hi - lo <= 1 THEN lo
  ELSE LET mid == (lo + hi) \div 2
       IN  IF mid * mid <= s THEN IsqrtIn(s, mid, hi) ELSE IsqrtIn(s, lo, mid)

\* (2 * 50 * 2^(c/32))^2, an integer for the codes c that are multiples of
\* 16 (the luminance codes of the inputs below).
TwiceNitsSquared(c) == 10000 * 2^(c \div 16)

\* Mutant of PeakNits: int() for round().
PeakNitsTruncated(c) == IsqrtIn(TwiceNitsSquared(c), 0, 46341) \div 2

\* Lines 137-138: round(50 * (2 ** (max_lum_code / 32.0))), for a code that
\* is a multiple of 16: the integer nearest to half the square root of
\* (2 * 50 * 2^(c/32))^2.  (No such value lies halfway between two
\* integers.)
PeakNits(c) == (IsqrtIn(TwiceNitsSquared(c), 0, 46341) + 1) \div 2

RECURSIVE WalkBlocks(_, _)
\* Lines 116-142: the walk over the data blocks of extension from pos on.
\* The first HDR static metadata block (tag 7, extended tag 6, length >= 4)
\* with a luminance code above 0 gives the result.
WalkBlocks(extension, pos) ==
  LET dtd_offset == ByteAt(extension, 2)
  IN  IF ~(pos < dtd_offset /\ pos < Len(extension) - 1) THEN NotFound
      ELSE LET block_header == ByteAt(extension, pos)
               block_tag == (block_header \div 32) % 8
               block_length == block_header % 32
               next == pos + block_length + 1
           IN  IF /\ block_tag = 7
                  /\ block_length > 0
                  /\ pos + 1 < Len(extension)
                  /\ ByteAt(extension, pos + 1) = 6
                  /\ block_length >= 4
                  /\ pos + 4 < Len(extension)
                  /\ ByteAt(extension, pos + 4) > 0
               THEN Found(PeakNits(ByteAt(extension, pos + 4)))
               ELSE IF next >= Len(extension) THEN NotFound
                    ELSE WalkBlocks(extension, next)

RECURSIVE ScanAnyExtension(_, _)
\* Mutant of ScanExtensions: the tag of the extension is not looked at.
ScanAnyExtension(edid_data, offset) ==
  IF offset >= Len(edid_data) \/ offset + BlockSize > Len(edid_data)
  THEN NotFound
  ELSE LET extension == SubSeq(edid_data, offset + 1, offset + BlockSize)
           brightness == WalkBlocks(extension, 4)
       IN  IF brightness.found THEN brightness
           ELSE ScanAnyExtension(edid_data, offset + BlockSize)

RECURSIVE ScanExtensions(_, _)
\* Lines 106-142: the loop over the 128-byte blocks from offset on; a block
\* that is not whole ends it, a block whose first byte is not 0x02 is
\* skipped.
ScanExtensions(edid_data, offset) ==
  IF offset >= Len(edid_data) \/ offset + BlockSize > Len(edid_data)
  THEN NotFound
  ELSE LET extension == SubSeq(edid_data, offset + 1, offset + BlockSize)
           brightness == IF ByteAt(extension, 0) # 2 THEN NotFound
                         ELSE WalkBlocks(extension, 4)
       IN  IF brightness.found THEN brightness
           ELSE ScanExtensions(edid_data, offset + BlockSize)

\* The byte at offset of extension number ext, looked at as role.
ReadOf(ext, offset, role) == [ext |-> ext, offset |-> offset, role |-> role]

RECURSIVE WalkReadsUnchecked(_, _, _)
\* Mutant of WalkReads: the luminance code is looked at without the test of
\* line 131.
WalkReadsUnchecked(k, extension, pos) ==
  LET dtd_offset == ByteAt(extension, 2)
  IN  IF ~(pos < dtd_offset /\ pos < Len(extension) - 1) THEN <<>>
      ELSE LET block_header == ByteAt(extension, pos)
               block_length == block_header % 32
               next == pos + block_length + 1
               hdr == /\ (block_header \div 32) % 8 = 7
                      /\ ByteAt(extension, pos + 1) = 6
                      /\ block_length >= 4
           IN  <<ReadOf(k, pos, "block_header"),
                 ReadOf(k, pos + 1, "extended_tag")>>
               \o (IF hdr THEN <<ReadOf(k, pos + 4, "max_lum_code")>>
                   ELSE <<>>)
               \o (IF next >= Len(extension) THEN <<>>
                   ELSE WalkReadsUnchecked(k, extension, next))

RECURSIVE WalkReads(_, _, _)
\* Lines 116-142: the bytes the walk over the data blocks of extension
\* (number k) looks at from pos on: each header (line 117), the extended
\* tag of a block with tag 7 and a length above 0 (line 124), the luminance
\* code of an HDR block of length >= 4 (line 130).
WalkReads(k, extension, pos) ==
  LET dtd_offset == ByteAt(extension, 2)
  IN  IF ~(pos < dtd_offset /\ pos < Len(extension) - 1) THEN <<>>
      ELSE LET block_header == ByteAt(extension, pos)
               block_tag == (block_header \div 32) % 8
               block_length == block_header % 32
               next == pos + block_length + 1
               tagged == /\ block_tag = 7
                         /\ block_length > 0
                         /\ pos + 1 < Len(extension)
               hdr == /\ tagged
                      /\ ByteAt(extension, pos + 1) = 6
                      /\ block_length >= 4
                      /\ pos + 4 < Len(extension)
           IN  <<ReadOf(k, pos, "block_header")>>
               \o (IF tagged THEN <<ReadOf(k, pos + 1, "extended_tag")>>
                   ELSE <<>>)
               \o (IF hdr THEN <<ReadOf(k, pos + 4, "max_lum_code")>>
                   ELSE <<>>)
               \o (IF hdr /\ ByteAt(extension, pos + 4) > 0 THEN <<>>
                   ELSE IF next >= Len(extension) THEN <<>>
                   ELSE WalkReads(k, extension, next))

RECURSIVE ScanReads(_, _)
\* Lines 106-142: the bytes the loop over the 128-byte blocks looks at from
\* offset on: the first byte of every whole block (line 113), the third
\* byte of a CTA-861 extension (line 116) and what the walk looks at; up to
\* the extension that gives a result.
ScanReads(edid_data, offset) ==
  IF offset >= Len(edid_data) \/ offset + BlockSize > Len(edid_data)
  THEN <<>>
  ELSE LET extension == SubSeq(edid_data, offset + 1, offset + BlockSize)
           k == offset \div BlockSize
       IN  <<ReadOf(k, 0, "extension_tag")>>
           \o (IF ByteAt(extension, 0) # 2 THEN <<>>
               ELSE <<ReadOf(k, 2, "dtd_offset")>>
                    \o WalkReads(k, extension, 4))
           \o (IF ByteAt(extension, 0) = 2 /\ WalkBlocks(extension, 4).found
               THEN <<>>
               ELSE ScanReads(edid_data, offset + BlockSize))

parse_reads(edid_data) ==
  IF Len(edid_data) < MinEdidLength THEN <<>>
  ELSE ScanReads(edid_data, BlockSize)

\* _parse_hdr_metadata, lines 101-146.  No statement of the try block can
\* raise on a sequence of bytes: every index is checked before it is used.
parse_hdr_metadata(edid_data) ==
  IF Len(edid_data) < MinEdidLength THEN NotFound
  ELSE ScanExtensions(edid_data, BlockSize)

\* The EDID values the registry may hold.  A data block is its header byte
\* (tag * 32 + length) and length more bytes.
Zeros(n) == [i \in 1..n |-> 0]
Pad(s, n) == s \o Zeros(n - Len(s))
Take(s, n) == SubSeq(s, 1, n)

\* Luminance codes: none, two whose value is not a power of two times 50,
\* and the 160 of a 1600 nits display.
LumCodes == {0, 16, 32, 160}

\* HDR static metadata: tag 7, length 4, extended tag 6, the luminance code
\* in the fourth byte after the header.
HdrBlock(c) == <<228, 6, 5, 1, c>>
\* The same with length 3: it ends before the luminance code.
ShortHdrBlock == <<227, 6, 5, 1>>
\* Tag 7, length 4, another extended tag (5, colorimetry).
OtherExtendedBlock == <<228, 5, 0, 0, 160>>
\* Tag 2 (video), length 1.
VideoBlock == <<65, 16>>

BlockLists ==
  { <<>>, OtherExtendedBlock,
    VideoBlock \o HdrBlock(32),
    HdrBlock(0) \o HdrBlock(160),
    ShortHdrBlock \o HdrBlock(16) }
    \cup { HdrBlock(c) : c \in LumCodes }

\* A 128-byte extension block: its tag, a revision, the offset at which the
\* data blocks end, a flags byte, the data blocks, padding.
ExtensionBlock(tag, blocks) ==
  Pad(<<tag, 3, 4 + Len(blocks), 0>> \o blocks, BlockSize)

\* CTA-861 extensions (tag 0x02), and one of another kind (0x70) that holds
\* the bytes of an HDR block.
ExtensionBlocks ==
  { ExtensionBlock(2, blocks) : blocks \in BlockLists }
    \cup { ExtensionBlock(112, HdrBlock(160)) }

\* Base blocks: one with the EDID header, and one whose bytes are those of
\* a CTA-861 extension with an HDR block.
BaseBlocks ==
  { Pad(<<0, 255, 255, 255, 255, 255, 255, 0>>, BlockSize),
    ExtensionBlock(2, HdrBlock(160)) }

\* What may follow the last whole block: nothing, or the first 20 or 127
\* bytes of an extension with an HDR block.
PartialBlocks ==
  { <<>>, Take(ExtensionBlock(2, HdrBlock(160)), 20),
    Take(ExtensionBlock(2, HdrBlock(160)), BlockSize - 1) }

RECURSIVE Concat(_)
Concat(blocks) ==
  IF blocks = <<>> THEN <<>> ELSE Head(blocks) \o Concat(Tail(blocks))

EdidInputs ==
  { <<>>, Take(ExtensionBlock(2, HdrBlock(160)), 100) }
    \cup { base \o Concat(exts) \o partial :
             base \in BaseBlocks,
             exts \in UNION { [1..n -> ExtensionBlocks] :
                              n \in 0..MaxExtensions },
             partial \in PartialBlocks }

\* _check_display_brightness, lines 73-77: the EDID value of a display is
\* parsed.
ParseHdrMetadata ==
  /\ detector.pc = "idle"
  /\ detector' =
       [detector EXCEPT
          !.pc = "parsed",
          !.brightness = parse_hdr_metadata(detector.edid_data),
          !.reads = parse_reads(detector.edid_data)]
  /\ UNCHANGED <<config_path, disk, now, pc, locals, result, calls, pre, steps,
                 prev, current_values, protector, extras>>

\* Extensions that are not laid out as CTA-861 asks.  The offset at which
\* the data blocks end lies before, inside or after an HDR block.
CutExtensions ==
  { Pad(<<2, 3, dtd_offset, 0>> \o HdrBlock(160), BlockSize) :
      dtd_offset \in {0, 3, 4, 5, 8, 9, 255} }
\* Blocks of tag 3 from 4 to 100 and from there on nothing but blocks of
\* length 0, up to an end offset at, or past, the end of the extension.
EmptyBlocksExtensions ==
  { [i \in 1..BlockSize |->
       IF i - 1 = 0 THEN 2
       ELSE IF i - 1 = 1 THEN 3
       ELSE IF i - 1 = 2 THEN dtd_offset
       ELSE IF i - 1 \in {4, 36, 68} THEN 3 * 32 + 31
       ELSE 0] :
      dtd_offset \in {BlockSize - 1, BlockSize, 255} }
\* Blocks of tag 3 from 4 to 100, one more up to offset last, and there an
\* HDR header of length 31 followed by the extended tag 6 and, where it is
\* inside the extension, the luminance code 160.
TailExtension(last) ==
  [i \in 1..BlockSize |->
     IF i - 1 = 0 THEN 2
     ELSE IF i - 1 = 1 THEN 3
     ELSE IF i - 1 = 2 THEN 255
     ELSE IF i - 1 \in {4, 36, 68} THEN 3 * 32 + 31
     ELSE IF i - 1 = 100 THEN 3 * 32 + (last - 101)
     ELSE IF i - 1 = last THEN 7 * 32 + 31
     ELSE IF i - 1 = last + 1 THEN 6
     ELSE IF i - 1 = last + 4 THEN 160
     ELSE 0]
TailExtensions == { TailExtension(last) : last \in {122, 123, 124, 126} }

EdgeExtensions ==
  CutExtensions \cup EmptyBlocksExtensions \cup TailExtensions
    \cup { ExtensionBlock(2, HdrBlock(16)) }

\* EDID values with such extensions.
WalkInputs ==
  { Pad(<<0, 255, 255, 255, 255, 255, 255, 0>>, BlockSize) \o Concat(exts) :
      exts \in UNION { [1..n -> EdgeExtensions] : n \in 1..MaxExtensions } }

InitEdid == InitWith({}, EdidInputs, {"present"})



NextEdid == ParseHdrMetadata

\* The parse of one EDID value out of EdidInputs.
SpecEdid == InitEdid /\ [][NextEdid]_vars

InitWalk == InitWith({}, WalkInputs, {"present"})

\* The parse of one EDID value out of WalkInputs.
SpecWalk == InitWalk /\ [][NextEdid]_vars

InitFind == InitWith(ProfileFiles, {<<>>}, SettingsRoots)

NextFind ==
  \/ FindConfigFile
  \/ ExternalDelete

\* Searches for the profile file, in any state of the settings directory.
SpecFind == InitFind /\ [][NextFind]_vars

\* ------------------------------------------------------------- main window
\* The profile file of the main-window behaviours, and what a handler may
\* gather from the controls: nothing, or a value for weapon_dof.
GuiFiles == { <<BOM>> \o Join(<<ls>>, CRLF) :
                ls \in { <<SETTINGS["weapon_dof"].key, SP, "0">> } }
GuiRequests == { r \in Requests : DOMAIN r \subseteq {"weapon_dof"} }

\* What a handler step that makes no ConfigManager call leaves alone.
GuiFrame ==
  UNCHANGED <<config_path, disk, now, pc, locals, result, calls, pre, steps,
              prev, current_values, protector, detector, settings_root,
              search, scan, waiter>>

Returned(path) == [pc |-> "returned", proc_info |-> 0, path |-> path]

\* bf6.exe starts, stops, or is restarted under another process id.
GameStartsOrStops ==
  /\ \E g \in ({0} \cup Pids) \ {gui.game} : gui' = [gui EXCEPT !.game = g]
  /\ GuiFrame

\* main_window.py, line 235 (app: line 759): a click on the enabled button
\* creates a task running apply_settings, which begins by awaiting the
\* process check (line 316).
OnClick ==
  /\ pc # "crashed"
  /\ ~gui.button_disabled
  /\ \E h \in Handlers :
       /\ gui.task[h].pc = "none"
       /\ \A k \in Handlers : k < h => gui.task[k].pc # "none"
       /\ gui' = [gui EXCEPT !.task[h].pc = "checking"]
  /\ GuiFrame

\* ProcessChecker.is_game_running, lines 17-41, run in the executor for
\* handler h: the process information of a running bf6.exe, or None.
IsGameRunning(h) ==
  /\ pc # "crashed"
  /\ gui.task[h].pc = "checking"
  /\ gui' = [gui EXCEPT !.task[h].pc = "checked",
                        !.task[h].proc_info = gui.game]
  /\ GuiFrame

\* Mutant of ShowGameRunningDialog: after the dialog the handler goes on as
\* if no game had been found.
ShowDialogAndGoOn(h) ==
  /\ pc # "crashed"
  /\ gui.task[h].pc = "checked"
  /\ gui.task[h].proc_info # 0
  /\ gui' = [gui EXCEPT !.dialog = gui.task[h].proc_info,
                        !.task[h].proc_info = 0]
  /\ GuiFrame

\* MainWindow.apply_settings, lines 318-320, and _show_game_running_dialog,
\* lines 373-392: the check found the game, the handler shows the dialog
\* with the process id and returns.
ShowGameRunningDialog(h) ==
  /\ pc # "crashed"
  /\ gui.task[h].pc = "checked"
  /\ gui.task[h].proc_info # 0
  /\ gui' = [gui EXCEPT !.dialog = gui.task[h].proc_info,
                        !.task[h] = Returned("game_running")]
  /\ GuiFrame

\* The edit engine takes up a call of apply_settings(req) (set_readonly
\* defaulted to True) when no other call is under way; of a call that
\* starts while another one runs, only the start and the return are kept.
RunCall(req) ==
  IF gui.owner = 0 /\ pc = "idle"
  THEN /\ Enter(req, TRUE)
       /\ UNCHANGED <<config_path, disk, now, pending, backup_path, content,
                      original_content, changes_made, was_readonly, exc, prev>>
  ELSE IF gui.owner = 0 /\ pc = "done"
  THEN /\ prev' = [called |-> TRUE, success |-> result.success,
                   message |-> result.message, changes |-> result.changes,
                   bytes |-> target.bytes]
       /\ now' \in now..MaxTime
       /\ Enter(req, TRUE)
       /\ pending' = {}
       /\ backup_path' = NoPath
       /\ content' = <<>>
       /\ original_content' = <<>>
       /\ changes_made' = <<>>
       /\ was_readonly' = FALSE
       /\ exc' = "none"
       /\ temp' = NoFile
       /\ leaked' = leaked + (IF temp.exists THEN 1 ELSE 0)
       /\ UNCHANGED <<config_path, target, backups>>
  ELSE UNCHANGED <<config_path, disk, now, pc, locals, result, calls, pre,
                   steps, prev>>

\* The call ConfigManager.apply_settings(req) of handler h (line 353).
\* Without a cached path the call returns "Config file not found" before
\* its first await (config_manager.py, line 195), and the handler goes on
\* to report it (lines 358-359, 367-371) without having been suspended;
\* with a cached path the call is suspended at its first await and the
\* handler with it.
CallApplySettings(h, req) ==
  /\ gui' =
       IF config_path = NoPath
       THEN [gui EXCEPT !.status = "error",
                        !.button_disabled = FALSE,
                        !.task[h] = Returned("failure")]
       ELSE [gui EXCEPT !.button_disabled = TRUE,
                        !.task[h].pc = "applying",
                        !.in_flight = gui.in_flight \cup {h},
                        !.owner = IF gui.owner = 0 THEN h ELSE gui.owner]
  /\ RunCall(req)
  /\ UNCHANGED <<current_values, protector, detector, settings_root, search,
                 scan, waiter>>

\* MainWindow.apply_settings, lines 322-353 and 362-371: no game was found.
\* The handler disables the button and gathers the settings; when gathering
\* raises, or nothing is selected, it reports that and the finally clause
\* enables the button again; otherwise it calls ConfigManager.apply_settings
\* and awaits the result.
GatherAndApply(h) ==
  /\ pc # "crashed"
  /\ gui.task[h].pc = "checked"
  /\ gui.task[h].proc_info = 0
  /\ \/ /\ gui' = [gui EXCEPT !.status = "error",
                              !.button_disabled = FALSE,
                              !.task[h] = Returned("exception")]
        /\ GuiFrame
     \/ \E req \in GuiRequests :
          IF req = EmptyRequest
          THEN /\ gui' = [gui EXCEPT !.status = "no_selection",
                                     !.button_disabled = FALSE,
                                     !.task[h] = Returned("nothing_selected")]
               /\ GuiFrame
          ELSE CallApplySettings(h, req)

\* MainWindow.apply_settings, lines 355-371: the call returned; the handler
\* reports the result and the finally clause enables the button again.
ApplyReturns(h) ==
  /\ pc # "crashed"
  /\ gui.task[h].pc = "applying"
  /\ \E ok \in BOOLEAN :
       /\ gui.owner = h => pc = "done" /\ ok = result.success
       /\ gui' = [gui EXCEPT
                    !.status = IF ok THEN "success" ELSE "error",
                    !.button_disabled = FALSE,
                    !.task[h] = Returned(IF ok THEN "success" ELSE "failure"),
                    !.in_flight = gui.in_flight \ {h},
                    !.owner = IF gui.owner = h THEN 0 ELSE gui.owner]
  /\ GuiFrame

InitGui == InitWith(GuiFiles, {<<>>}, {"present"})

NextGui ==
  \/ FindConfigFile
  \/ GameStartsOrStops
  \/ OnClick
  \/ \E h \in Handlers : IsGameRunning(h)
  \/ \E h \in Handlers : ShowGameRunningDialog(h)
  \/ \E h \in Handlers : GatherAndApply(h)
  \/ \E h \in Handlers : ApplyReturns(h)
  \/ CreateBackup
  \/ ReadContent
  \/ ApplySetting
  \/ NoOpGuard
  \/ AtomicWriteUnprotect
  \/ MakeTemp
  \/ WriteTemp
  \/ AtomicReplace
  \/ CleanupTemp
  \/ Protect
  \/ Except
  \/ Crash

\* The main window: clicks on the apply button while the game starts and
\* stops, each handler's call run by the edit engine.
SpecGui == InitGui /\ [][NextGui]_vars

\* ------------------------------------------------------ registry enumeration
\* What the enumeration meets at a device instance: a Device Parameters key
\* with an EDID value (of a 1600 nits display, of a 100 nits display, or
\* without HDR metadata), no such key or value (FileNotFoundError), or a
\* key that cannot be opened or read (another OSError, as PermissionError).
InstanceKinds == {"edid_1600", "edid_100", "edid_sdr", "missing", "denied"}

EdidOf(kind) ==
  Pad(<<0, 255, 255, 255, 255, 255, 255, 0>>, BlockSize)
    \o ExtensionBlock(2, IF kind = "edid_1600" THEN HdrBlock(160)
                         ELSE IF kind = "edid_100" THEN HdrBlock(32)
                         ELSE VideoBlock)

\* A display key: whether it can be opened, and its instances in the order
\* EnumKey gives them.
DisplayKeys ==
  { [opens |-> TRUE, instances |-> is] :
      is \in UNION { [1..n -> InstanceKinds] : n \in 0..MaxInstances } }
    \cup { [opens |-> FALSE, instances |-> <<"edid_1600">>] }

\* The registries: two display keys; and one whose base key cannot be
\* opened.
Registries == (DisplayKeys \X DisplayKeys) \cup { <<>> }

ScanFrame ==
  UNCHANGED <<config_path, disk, now, pc, locals, result, calls, pre, steps,
              prev, current_values, protector, detector, settings_root,
              search, gui, waiter>>

\* get_peak_brightness, lines 18-31, and _get_brightness_sync, lines 33-38:
\* the base key is opened; when that fails the except clause of line 49
\* logs it and None is returned.  (The registry is any of Registries.)
GetPeakBrightness ==
  /\ scan.pc = "idle"
  /\ \E registry \in Registries :
       scan' = [scan EXCEPT
                  !.registry = registry,
                  !.pc = IF registry = <<>> THEN "done" ELSE "displays"]
  /\ ScanFrame

\* _get_brightness_sync, lines 39-49, and _check_display_brightness, lines
\* 56-61: EnumKey gives display i, whose key is opened, or raises OSError
\* past the last display, which ends the loop with None.  A display key
\* that cannot be opened gives None for that display (line 86).
EnumDisplay ==
  /\ scan.pc = "displays"
  /\ scan' =
       IF scan.i >= Len(scan.registry)
       THEN [scan EXCEPT !.pc = "done"]
       ELSE IF ~scan.registry[scan.i + 1].opens
       THEN [scan EXCEPT !.i = scan.i + 1]
       ELSE [scan EXCEPT !.pc = "instances", !.j = 0]
  /\ ScanFrame

\* _check_display_brightness, lines 62-85, and _get_brightness_sync, lines
\* 42-46: EnumKey gives instance j, or raises OSError past the last one,
\* which ends the display with None.  The Device Parameters key is opened
\* and its EDID value read and parsed: a brightness is returned at once;
\* FileNotFoundError is passed over (line 79); any other OSError reaches
\* the except clause of line 83 and ends the display like the end of the
\* instances.
EnumInstance ==
  /\ scan.pc = "instances"
  /\ LET instances == scan.registry[scan.i + 1].instances
         kind == instances[scan.j + 1]
         brightness == parse_hdr_metadata(EdidOf(kind))
     IN  scan' =
           IF scan.j >= Len(instances)
           THEN [scan EXCEPT !.pc = "displays", !.i = scan.i + 1]
           ELSE IF kind = "missing"
           THEN [scan EXCEPT !.j = scan.j + 1,
                             !.examined = @ \cup {<<scan.i, scan.j>>}]
           ELSE IF kind = "denied"
           THEN [scan EXCEPT !.pc = "displays", !.i = scan.i + 1,
                             !.examined = @ \cup {<<scan.i, scan.j>>}]
           ELSE IF brightness.found /\ brightness.nits # 0
           THEN [scan EXCEPT !.pc = "done", !.result = brightness,
                             !.examined = @ \cup {<<scan.i, scan.j>>}]
           ELSE [scan EXCEPT !.j = scan.j + 1,
                             !.examined = @ \cup {<<scan.i, scan.j>>}]
  /\ ScanFrame

InitScan == InitWith({}, {<<>>}, {"present"})

NextScan ==
  \/ GetPeakBrightness
  \/ EnumDisplay
  \/ EnumInstance

\* One call of get_peak_brightness, over any registry of Registries.
SpecScan == InitScan /\ [][NextScan]_vars

\* ------------------------------------------------------------ process gate
WaitFrame ==
  UNCHANGED <<config_path, disk, now, pc, locals, result, calls, pre, steps,
              prev, current_values, protector, detector, settings_root,
              search, scan>>

\* The clock of the event loop, in check intervals.  It is followed up to
\* the first value past every max_wait_time.
Later(clock) == { t \in 0..(MaxWait + 1) : t > clock \/ t = MaxWait + 1 }

\* wait_for_game_to_close, lines 43-58: called with max_wait_time None or a
\* number of seconds; the time of the call is kept.
WaitForGameToClose ==
  /\ waiter.pc = "idle"
  /\ \E bounded \in BOOLEAN, max_wait_time \in 0..MaxWait :
       /\ ~bounded => max_wait_time = 0
       /\ waiter' = [waiter EXCEPT !.pc = "check",
                                   !.bounded = bounded,
                                   !.max_wait_time = max_wait_time,
                                   !.start_time = waiter.clock]
  /\ UNCHANGED gui
  /\ WaitFrame

\* Mutant of WaitCheck: the timeout is evaluated before the process is
\* looked for.
WaitCheckTimeoutFirst ==
  /\ waiter.pc = "check"
  /\ LET elapsed == waiter.clock - waiter.start_time
     IN  waiter' =
           IF waiter.bounded /\ elapsed >= waiter.max_wait_time
           THEN [waiter EXCEPT !.pc = "returned", !.ret = FALSE]
           ELSE IF gui.game = 0
           THEN [waiter EXCEPT !.pc = "returned", !.ret = TRUE,
                               !.checked = TRUE]
           ELSE [waiter EXCEPT !.pc = "sleep", !.checked = TRUE]
  /\ UNCHANGED gui
  /\ WaitFrame

\* wait_for_game_to_close, lines 60-74: the process check; no process ends
\* the wait with True; a process still there after max_wait_time ends it
\* with False; otherwise the coroutine sleeps.
WaitCheck ==
  /\ waiter.pc = "check"
  /\ LET proc_info == gui.game
         elapsed == waiter.clock - waiter.start_time
     IN  waiter' =
           IF proc_info = 0
           THEN [waiter EXCEPT !.pc = "returned", !.ret = TRUE,
                               !.checked = TRUE]
           ELSE IF waiter.bounded /\ elapsed >= waiter.max_wait_time
           THEN [waiter EXCEPT !.pc = "returned", !.ret = FALSE,
                               !.checked = TRUE]
           ELSE [waiter EXCEPT !.pc = "sleep", !.checked = TRUE]
  /\ UNCHANGED gui
  /\ WaitFrame

\* wait_for_game_to_close, line 76: asyncio.sleep(check_interval); when the
\* coroutine goes on, time has advanced.
WaitSleep ==
  /\ waiter.pc = "sleep"
  /\ \E t \in Later(waiter.clock) :
       waiter' = [waiter EXCEPT !.pc = "check", !.clock = t]
  /\ UNCHANGED gui
  /\ WaitFrame

InitWait == InitWith({}, {<<>>}, {"present"})

NextWait ==
  \/ GameStartsOrStops
  \/ WaitForGameToClose
  \/ WaitCheck
  \/ WaitSleep

\* One call of wait_for_game_to_close while the game starts and stops.
SpecWait == InitWait /\ [][NextWait]_vars

\* The same with the event loop going on with a coroutine that can go on:
\* the process check returns, the sleep ends.
SpecWaitFair ==
  /\ SpecWait
  /\ WF_vars(WaitCheck)
  /\ WF_vars(WaitSleep)

\* ================================================================ properties
RECURSIVE ApplyAll(_, _, _)
\* text with the settings ids of request req substituted, one after another.
ApplyAll(text, req, ids) ==
  IF ids = {} THEN text
  ELSE LET id == CHOOSE x \in ids : TRUE
       IN  ApplyAll(ReSub(SETTINGS[id].key, req[id], text), req, ids \ {id})

Requested == DOMAIN settings_to_apply \cap SettingIds

\* What the call read, and the complete new content it is to write.
OldText == Decode(pre.target.bytes)
NewText == ApplyAll(OldText, settings_to_apply, Requested)
NewBytes == Encode(NewText)

\* The call found its file: it got past the "not found" return.
Started == calls > 0 /\ pre.config_path # NoPath /\ pre.target.exists

Did(step) == \E i \in 1..Len(steps) : steps[i] = step

\* C1: in every state of a call, after any step and after a crash or a
\* failure at any step, the target holds exactly its bytes of before the
\* call (until the replace) or exactly the complete new content (from the
\* replace on): never a part of either.
C1_TargetOldOrNew ==
  calls > 0 =>
    /\ target.exists = pre.target.exists
    /\ ~Did("replace") => target.bytes = pre.target.bytes
    /\ Did("replace") => target.bytes = NewBytes

\* C1 witness: the process died while the temporary file held part of the
\* new content; the target is the old one.
C1_Witness ==
  /\ pc = "crashed"
  /\ temp.exists
  /\ temp.bytes # <<>>
  /\ temp.bytes # NewBytes
  /\ target.bytes = pre.target.bytes
  /\ NewBytes # pre.target.bytes

\* C2: when the write step failed (mkstemp, the write of the temporary file
\* or the replace), the returned call has left the target's bytes and its
\* read-only bit as they were before the call.
C2_WriteFailureRestores ==
  (pc = "done" /\ result.error \in {"mkstemp", "write", "replace", "unlink"}) =>
    /\ target.bytes = pre.target.bytes
    /\ target.ro = pre.target.ro

Precedes(a, b) ==
  \A j \in 1..Len(steps) :
    steps[j] = b =>
      /\ \E i \in 1..(j - 1) : steps[i] = a
      /\ \A i \in j..Len(steps) : steps[i] # a

\* C4: the steps of one call come in a fixed order: the backup before the
\* read and before any change of the target or its bit; the read before any
\* substitution; every substitution before the write and the replace; the
\* read-only bit set only after the replace.
C4_StepOrder ==
  /\ Precedes("backup", "read")
  /\ Precedes("backup", "unprotect")
  /\ Precedes("backup", "replace")
  /\ Precedes("backup", "protect")
  /\ Precedes("read", "subst")
  /\ Precedes("subst", "write")
  /\ Precedes("subst", "replace")
  /\ Precedes("write", "replace")
  /\ Precedes("replace", "protect")
  /\ (Started /\ target.bytes # pre.target.bytes) => Did("replace")
  /\ (Started /\ target.ro # pre.target.ro) => Did("backup")
  /\ (Started /\ target.ro /\ ~pre.target.ro) => Did("replace")
  /\ (Started /\ backups # pre.backups) => Did("backup")

\* C4 witness: a call that took every step, two substitutions among them.
C4_Witness ==
  /\ pc = "done"
  /\ steps = <<"backup", "read", "subst", "subst", "unprotect", "mkstemp",
               "write", "replace", "protect">>

\* The registered settings of the request whose substitution changes text.
Changing(text) ==
  { id \in Requested :
      ReSub(SETTINGS[id].key, settings_to_apply[id], text) # text }

\* The literals the pattern of setting id matches in text, in order.
Literals(id, text) ==
  LET ms == MatchesFrom(text, 1, SETTINGS[id].key)
  IN  [k \in 1..Len(ms) |-> MatchAt(text, ms[k], SETTINGS[id].key).g2]

\* C5: for a request of registered ids, each with its key (and a value) in
\* the file, get_current_values after a successful apply_settings returns
\* the requested value for every requested id and, for every other
\* registered id, what it returned before the call.
C5_ApplyThenRead ==
  ( /\ pc = "done"
    /\ result.success
    /\ DOMAIN settings_to_apply \subseteq SettingIds
    /\ \A id \in Requested : CurrentValues(pre.target.bytes)[id] # None ) =>
    \A id \in SettingIds :
      CurrentValues(target.bytes)[id] =
        IF id \in Requested THEN settings_to_apply[id]
        ELSE CurrentValues(pre.target.bytes)[id]

\* C5 witness: one setting was changed while the file also holds the other.
C5_Witness ==
  /\ pc = "done"
  /\ result.success
  /\ DOMAIN settings_to_apply = {"hdr_peak_brightness"}
  /\ CurrentValues(pre.target.bytes)["hdr_peak_brightness"]
       \notin {None, settings_to_apply["hdr_peak_brightness"]}
  /\ CurrentValues(pre.target.bytes)["weapon_dof"] # None

SetOf(seq) == { seq[i] : i \in 1..Len(seq) }

\* C6 as stated: after a first call that succeeded, a second call with the
\* same request, no I/O step of which fails, leaves the bytes as the first
\* left them and reports success with the change set of the first.
C6_SecondCallSucceeds ==
  (pc = "done" /\ calls = 2 /\ prev.success /\ result.message # "error") =>
    /\ target.bytes = prev.bytes
    /\ result.success
    /\ SetOf(result.changes) = SetOf(prev.changes)

\* C6 as amended: after a first call that succeeded, a second call with the
\* same request never changes the bytes the first left, and it reports
\* success=false: "No changes applied", with no change listed and with the
\* path of its own backup, unless an I/O step fails.
C6_SecondCallNoOp ==
  (calls = 2 /\ prev.success) =>
    /\ target.bytes = prev.bytes
    /\ pc = "done" =>
         /\ ~result.success
         /\ result.changes = <<>>
         /\ result.message \in {"no_changes", "error"}
         /\ result.message = "no_changes" =>
              result.backup_path = BackupPath(now)

\* C6 witness: the second of two identical calls returned, the first having
\* changed the file.
C6_Witness ==
  /\ pc = "done"
  /\ calls = 2
  /\ prev.success
  /\ prev.changes # <<>>
  /\ result.message = "no_changes"
  /\ target.bytes = prev.bytes

RECURSIVE SkeletonFrom(_, _, _)
\* The tokens of s from position i on, without the numeric literals of the
\* matches of the patterns of keys.
SkeletonFrom(s, i, keys) ==
  IF i > Len(s) THEN <<>>
  ELSE IF \E key \in keys : MatchAt(s, i, key).ok
       THEN LET m == MatchAt(s, i, s[i])
            IN  m.g1 \o SkeletonFrom(s, m.end, keys)
       ELSE <<s[i]>> \o SkeletonFrom(s, i + 1, keys)

RequestedKeys == { SETTINGS[id].key : id \in Requested }

\* C7: after a successful call every byte outside the numeric literals of
\* the matched occurrences of the requested keys is the byte of before the
\* call: byte-order mark, line terminators, blanks and line order included.
C7_OnlyLiteralsDiffer ==
  (pc = "done" /\ result.success) =>
    SkeletonFrom(target.bytes, 1, RequestedKeys) =
      SkeletonFrom(pre.target.bytes, 1, RequestedKeys)

\* What C8 says of a returned call that found its file.
SkipsAndCounts ==
  LET changed == Changing(OldText)
  IN  /\ result.success <=> changed # {}
      /\ ~result.success => result.message = "no_changes" /\ target = pre.target
      /\ result.success =>
           /\ SetOf(result.changes) =
                { <<SETTINGS[id].description, settings_to_apply[id]>> :
                    id \in changed }
           /\ Len(result.changes) = Cardinality(changed)
           /\ result.count = Len(result.changes)
           /\ target.bytes =
                Encode(ApplyAll(OldText, settings_to_apply, changed))

\* C8 as stated, for a call in which an entry changed the content: unknown
\* ids and ids whose key the file lacks are skipped, the other entries are
\* applied, success is true, and the changes list holds one description per
\* changed setting, as many as the message counts.
C8_SkipAlways ==
  (pc = "done" /\ Started /\ changes_made # <<>>) => SkipsAndCounts

\* C8 as amended: the same, for a call no I/O step of which fails; a call
\* with a failing I/O step returns success=false with the error.
C8_SkipUnlessIOError ==
  (pc = "done" /\ Started) =>
    IF result.message = "error"
    THEN ~result.success /\ result.error # "none"
    ELSE SkipsAndCounts

\* C8 witness: a batch of an unknown id, a setting whose key the file lacks
\* and a setting that changed.
C8_Witness ==
  /\ pc = "done"
  /\ result.success
  /\ "unknown_setting" \in DOMAIN settings_to_apply
  /\ Requested = SettingIds
  /\ Cardinality(Changing(OldText)) = 1
  /\ \E id \in Requested : CurrentValues(pre.target.bytes)[id] = None

\* C9: a successful call replaces the value on every line that holds a
\* requested key: as many occurrences as before, each with the requested
\* value.
C9_EveryOccurrence ==
  (pc = "done" /\ result.success) =>
    \A id \in Requested :
      LET new == Literals(id, Decode(target.bytes))
      IN  /\ Len(new) = Len(Literals(id, OldText))
          /\ \A k \in 1..Len(new) : new[k] = settings_to_apply[id]

\* C9 witness: the key was on two lines, neither with the requested value.
C9_Witness ==
  /\ pc = "done"
  /\ result.success
  /\ \E id \in Requested :
       LET old == Literals(id, OldText)
       IN  /\ Len(old) = 2
           /\ \A k \in 1..2 : old[k] # settings_to_apply[id]
           /\ Literals(id, Decode(target.bytes)) =
                <<settings_to_apply[id], settings_to_apply[id]>>

\* C10: a call without a cached path, or with the path not on disk, returns
\* success=false "config file not found" at once and leaves the disk as it
\* was: no backup, no temporary file, the target and its bit untouched.
C10_NotFoundTouchesNothing ==
  (calls > 0 /\ (pre.config_path = NoPath \/ ~pre.target.exists)) =>
    /\ pc = "done"
    /\ ~result.success
    /\ result.message = "not_found"
    /\ result.backup_path = NoPath
    /\ steps = <<>>
    /\ target = pre.target
    /\ backups = pre.backups
    /\ ~temp.exists
    /\ leaked = pre.leaked

\* C10 witness: the cached path is no longer on disk.
C10_Witness ==
  /\ pc = "done"
  /\ result.message = "not_found"
  /\ config_path = ConfigPath
  /\ ~target.exists

\* The step of a failed call whose failure ended it, from the steps done.
FailedStep ==
  IF ~Did("backup") THEN "copy"
  ELSE IF ~Did("read") THEN "read"
  ELSE IF ~Did("mkstemp") THEN "mkstemp"
  ELSE IF ~Did("write") THEN "write"
  ELSE "replace"

\* C11: a call in which the backup copy, the read, the creation of the
\* temporary file, its write or the replace failed returns success=false
\* with a message that carries the text of that error; and after a failed
\* backup copy there is no temporary file, and the target and its read-only
\* bit are as before the call.
C11_ErrorTextReturned ==
  (pc = "done" /\ result.message = "error") =>
    /\ ~result.success
    /\ result.error = FailedStep
    /\ FailedStep = "copy" =>
         /\ ~temp.exists
         /\ leaked = pre.leaked
         /\ target = pre.target

\* C12: every failure result of a call that had taken its backup (the no-op
\* return, and a failure of the read, of the creation or the write of the
\* temporary file, or of the replace) holds the path of that backup.
C12_FailureNamesBackup ==
  (pc = "done" /\ ~result.success /\ Did("backup")) =>
    /\ result.backup_path = BackupPath(now)
    /\ backups[now].exists

\* C13: once the call has returned, with success or with a failure at any
\* step of the write sequence, no temporary file of the call is left beside
\* the target: a success renamed it onto the target, a failure removed it.
C13_NoTempRemains ==
  (pc = "done" /\ Started) =>
    /\ ~temp.exists
    /\ leaked = pre.leaked
    /\ result.success => target.bytes = Encode(content)

\* The call tried to set the read-only bit.
TriedProtect == Did("protect") \/ Did("protect_failed")

\* C14: a call with set_readonly true whose replace succeeded tries to set
\* the read-only bit of the new target, whether the target was read-only
\* before or not, and the bit is set unless the platform refuses; a call
\* that returns without success (not found, no change, failure) has not
\* tried, and has not set a bit that was clear; a call whose attempt failed
\* still returns success=true.
C14_ProtectExactlyOnSuccess ==
  /\ (pc = "done" /\ result.success) =>
       /\ TriedProtect <=> set_readonly
       /\ Did("protect") => target.ro
  /\ (pc = "done" /\ ~result.success) =>
       /\ ~TriedProtect
       /\ target.ro => pre.target.ro
  /\ TriedProtect =>
       /\ Did("replace")
       /\ pc = "done"
       /\ result.success

\* C14 witness: a file that was writable before the call is read-only after
\* a successful call with set_readonly.
C14_Witness ==
  /\ pc = "done"
  /\ result.success
  /\ set_readonly
  /\ ~pre.target.ro
  /\ target.ro
  /\ Did("protect")

\* The literal of the first line of text that holds the key of setting id
\* with a value, or None.
FirstLiteral(id, text) ==
  IF Literals(id, text) = <<>> THEN None ELSE Literals(id, text)[1]

\* A step in which get_current_values returns.
ValuesReturned == ~current_values.called /\ current_values'.called

\* What C15 says get_current_values leaves alone.
ReadFrame == UNCHANGED <<config_path, target, temp, leaked, backups>>

\* C15 as stated, for a call with the path cached and the file on disk:
\* get_current_values leaves the target's content and read-only bit, the
\* backups, the temporary files and the cached path unchanged, and returns
\* for every registered setting id the literal of the first occurrence of
\* its key in the file, or none.
C15_ReadsEveryId ==
  [][(ValuesReturned /\ config_path # NoPath /\ target.exists) =>
       /\ ReadFrame
       /\ DOMAIN current_values'.values = SettingIds
       /\ \A id \in SettingIds :
            current_values'.values[id] = FirstLiteral(id, Decode(target.bytes))
    ]_vars

\* C15 as amended: the same frame; and what is returned is either the empty
\* dict, always so without a cached path or with the path not on disk, or,
\* for every registered setting id, the literal of the first occurrence of
\* its key in the file, or none.
C15_ReadsEveryIdOrNothing ==
  [][ValuesReturned =>
       /\ ReadFrame
       /\ \/ current_values'.values = NoValues
          \/ /\ config_path # NoPath
             /\ target.exists
             /\ DOMAIN current_values'.values = SettingIds
             /\ \A id \in SettingIds :
                  current_values'.values[id] =
                    FirstLiteral(id, Decode(target.bytes))
    ]_vars

\* C15 witness: after a successful apply_settings, with its backup on disk,
\* get_current_values returned the value of the first of two lines of one
\* key and none for the key the file lacks.
C15_Witness ==
  /\ pc = "done"
  /\ result.success
  /\ backups[now].exists
  /\ current_values.called
  /\ DOMAIN current_values.values = SettingIds
  /\ current_values.values["hdr_peak_brightness"] = None
  /\ LET ls == Literals("weapon_dof", Decode(target.bytes))
     IN  /\ Len(ls) = 2
         /\ current_values.values["weapon_dof"] = ls[1]

\* temporary_writable is under way or has exited.
InGuard == protector.op = "temporary_writable"

\* An exception of the wrapped body, and nothing else, reached the caller.
BodyErrorPassedOn ==
  protector.raised = (IF protector.body = "raised" THEN "body" ELSE "none")

BitChanged == /\ protector.pc = "returned"
              /\ protector.op \in {"set_readonly", "remove_readonly"}
Wanted == protector.op = "set_readonly"

\* C17: set_readonly returns true iff its second read of the attributes
\* shows the bit set, remove_readonly iff it shows the bit clear; each
\* returns false when a platform call raised and when the attribute write
\* left the bit as it was, not as wanted; and what is returned agrees with
\* the bit as it is at the verification.
C17_ReturnsVerifiedBit ==
  BitChanged =>
    /\ protector.ret = "true" <=>
         (protector.verified /\ target.ro = Wanted)
    /\ protector.failed = "raised" => protector.ret = "false"
    /\ (protector.failed = "no_effect" /\ protector.entry_ro # Wanted) =>
         protector.ret = "false"
    /\ protector.verified =>
         ((protector.ret = "true") <=> (target.ro = Wanted))
    /\ protector.ret \in {"true", "false"}
    /\ protector.raised = "none"

\* C17 witness: SetFileAttributes returned without setting the bit of a
\* writable file, and set_readonly returned false.
C17_Witness ==
  /\ protector.pc = "returned"
  /\ protector.op = "set_readonly"
  /\ protector.failed = "no_effect"
  /\ protector.verified
  /\ ~protector.entry_ro
  /\ ~target.ro
  /\ protector.ret = "false"

\* C18: no operation of FileProtector lets a platform error reach its
\* caller: when an attribute call raises, set_readonly, remove_readonly and
\* is_readonly return false, and temporary_writable enters and exits with
\* no exception of its own attribute calls (the read, the clearing, the
\* restoring).
C18_NoPlatformErrorEscapes ==
  /\ protector.raised # "platform"
  /\ ( /\ protector.pc = "returned"
       /\ protector.op \in {"set_readonly", "remove_readonly", "is_readonly"}
       /\ protector.failed = "raised" ) => protector.ret = "false"
  /\ (InGuard /\ protector.pc = "returned") => BodyErrorPassedOn

Edid == detector.edid_data
Parsed == detector.pc = "parsed"

\* The whole 128-byte blocks that follow the base block, numbered from 1.
WholeExtensions(data) ==
  IF Len(data) < BlockSize THEN 0 ELSE Len(data) \div BlockSize - 1
ExtensionAt(data, k) == SubSeq(data, k * BlockSize + 1, (k + 1) * BlockSize)

RECURSIVE HeadersFrom(_, _)
\* The offsets of the headers of the data blocks of extension ext, from pos
\* on: each block begins where the one before it ends, up to the offset the
\* third byte of the extension gives.
HeadersFrom(ext, pos) ==
  IF pos < ByteAt(ext, 2) /\ pos < BlockSize - 1
  THEN LET next == pos + (ByteAt(ext, pos) % 32) + 1
       IN  <<pos>> \o (IF next >= BlockSize THEN <<>>
                       ELSE HeadersFrom(ext, next))
  ELSE <<>>

\* The data block at pos of extension ext has the shape of HDR static
\* metadata: short tag 7, length >= 4, extended tag 6, a luminance code.
HdrShaped(ext, pos) ==
  /\ ByteAt(ext, 0) = 2
  /\ ByteAt(ext, pos) \div 32 = 7
  /\ ByteAt(ext, pos) % 32 >= 4
  /\ ByteAt(ext, pos + 1) = 6
  /\ pos + 4 < BlockSize

LumCodeAt(ext, pos) == ByteAt(ext, pos + 4)

\* The qualifying data blocks of data: <<extension number, header offset>>.
Qualifying(data) ==
  { b \in (1..WholeExtensions(data)) \X (0..(BlockSize - 1)) :
      LET ext == ExtensionAt(data, b[1])
      IN  /\ b[2] \in SetOf(HeadersFrom(ext, 4))
          /\ HdrShaped(ext, b[2])
          /\ LumCodeAt(ext, b[2]) > 0 }

Before(a, b) == a[1] < b[1] \/ (a[1] = b[1] /\ a[2] < b[2])

FirstQualifying(data) ==
  CHOOSE a \in Qualifying(data) :
    \A b \in Qualifying(data) : a = b \/ Before(a, b)

\* n is the integer nearest to 50 * 2^(c/32): 2n-1 <= 100 * 2^(c/32) <= 2n+1,
\* squared.
NearestNits(n, c) ==
  /\ (2 * n - 1) * (2 * n - 1) <= TwiceNitsSquared(c)
  /\ TwiceNitsSquared(c) <= (2 * n + 1) * (2 * n + 1)

\* C19: for an input of 256 bytes or more with a qualifying data block (in
\* a whole extension that starts with 0x02: short tag 7, length >= 4,
\* extended tag 6, luminance code c > 0), the parse returns the value of
\* the first such block in offset order over all whole extensions,
\* round(50 * 2^(c/32)): 1600 for c = 160, 50 * 2^k for c = 32k; a block of
\* that shape with c = 0 is passed over.
C19_FirstQualifyingBlock ==
  (Parsed /\ Len(Edid) >= MinEdidLength /\ Qualifying(Edid) # {}) =>
    LET first == FirstQualifying(Edid)
        c == LumCodeAt(ExtensionAt(Edid, first[1]), first[2])
        n == detector.brightness.nits
    IN  /\ detector.brightness.found
        /\ NearestNits(n, c)
        /\ c = 160 => n = 1600
        /\ c % 32 = 0 => n = 50 * 2^(c \div 32)

\* C19 witness: 1600 was returned for a block with c = 160 that comes after
\* a block of the same shape with c = 0 and before a qualifying block of
\* another extension with another code.
C19_Witness ==
  /\ Parsed
  /\ detector.brightness = Found(1600)
  /\ LET first == FirstQualifying(Edid)
         ext == ExtensionAt(Edid, first[1])
     IN  /\ \E pos \in SetOf(HeadersFrom(ext, 4)) :
              /\ pos < first[2]
              /\ HdrShaped(ext, pos)
              /\ LumCodeAt(ext, pos) = 0
         /\ \E b \in Qualifying(Edid) :
              /\ b[1] > first[1]
              /\ LumCodeAt(ExtensionAt(Edid, b[1]), b[2]) = 16

\* C20: the parse returns none for every input shorter than 256 bytes; and
\* for a longer input it returns none whenever no whole extension block
\* that starts with 0x02 holds a qualifying block: an extension with
\* another first byte and the bytes after the last whole block count for
\* nothing.
C20_NoneWithoutWholeCtaBlock ==
  Parsed =>
    /\ Len(Edid) < MinEdidLength => ~detector.brightness.found
    /\ Qualifying(Edid) = {} => ~detector.brightness.found
    /\ detector.brightness.found => Len(Edid) >= MinEdidLength

\* C20 witness: none was returned for an input whose only HDR blocks are in
\* an extension that starts with 0x70 and in the 127 bytes after it.
C20_Witness ==
  /\ Parsed
  /\ ~detector.brightness.found
  /\ Len(Edid) = 3 * BlockSize - 1
  /\ ByteAt(Edid, BlockSize) = 112
  /\ Take(ExtensionAt(Edid, 1), 9) = <<112, 3, 9, 0>> \o HdrBlock(160)
  /\ SubSeq(Edid, 2 * BlockSize + 1, 2 * BlockSize + 9) =
       <<2, 3, 9, 0>> \o HdrBlock(160)

\* C21: find_config_file returns none when the settings directory does not
\* exist and when it holds no file named PROFSAVE_profile at any depth;
\* otherwise it returns the path of a file of that name under the
\* directory.
C21_FindsFileOrNone ==
  [][FindConfigFile =>
       config_path' = IF settings_root = "missing" \/ ~target.exists
                      THEN NoPath ELSE ConfigPath
    ]_vars

\* C22: whenever the process check of a click handler reports the game
\* running, the handler refuses: it shows the dialog with the process id
\* and returns, it makes no ConfigManager.apply_settings call, and its step
\* creates no backup and leaves the file and its read-only bit as they are.
C22_RefusesWhileGameRuns ==
  [][\A h \in Handlers :
       ( /\ gui.task[h].pc = "checked"
         /\ gui.task[h].proc_info # 0
         /\ gui'.task[h] # gui.task[h] )
       => /\ gui'.task[h] = Returned("game_running")
          /\ gui'.dialog = gui.task[h].proc_info
          /\ gui'.in_flight = gui.in_flight
          /\ h \notin gui'.in_flight
          /\ UNCHANGED <<disk, pc, calls, steps, result>> ]_vars

\* A handler refused, with the profile file found and on disk, and no call
\* was ever made.
C22_Witness ==
  \E h \in Handlers :
    /\ gui.task[h].path = "game_running"
    /\ gui.dialog \in Pids
    /\ config_path = ConfigPath
    /\ target.exists
    /\ calls = 0
    /\ backups = [t \in 0..MaxTime |-> NoFile]

\* The offset at which the data blocks of extension number k of data end.
DtdOffsetOf(data, k) == ByteAt(ExtensionAt(data, k), 2)

\* C23: within a CTA extension the parse only looks at data blocks inside
\* [4, dtd_offset): no byte at an offset >= dtd_offset of the extension is
\* read as an extended tag or as a luminance code.
C23_NoReadPastDtdOffset ==
  Parsed =>
    \A i \in 1..Len(detector.reads) :
      LET r == detector.reads[i]
      IN  r.role \in {"extended_tag", "max_lum_code"}
            => r.offset < DtdOffsetOf(Edid, r.ext)

\* The reads of the block headers of extension number k, in order.
HeaderReads(k) ==
  SelectSeq(detector.reads,
            LAMBDA r : r.ext = k /\ r.role = "block_header")

\* C24: the parse of any byte sequence returns none or a positive integer,
\* and never reads outside the sequence: every byte it looks at lies in a
\* whole extension, at an offset below 128; in each extension the walk
\* begins at offset 4 and goes from a header to the offset (block length +
\* 1) after it, so that its position grows by 1 at least at each step and
\* stays below 128.
C24_WalkStaysInsideAndAdvances ==
  Parsed =>
    /\ detector.brightness.found => detector.brightness.nits > 0
    /\ \A i \in 1..Len(detector.reads) :
         /\ detector.reads[i].ext \in 1..WholeExtensions(Edid)
         /\ detector.reads[i].offset \in 0..(BlockSize - 1)
    /\ \A k \in 1..WholeExtensions(Edid) :
         LET headers == HeaderReads(k)
             ext == ExtensionAt(Edid, k)
         IN  /\ headers # <<>> => headers[1].offset = 4
             /\ \A i \in 1..(Len(headers) - 1) :
                  /\ headers[i + 1].offset =
                       headers[i].offset
                         + (ByteAt(ext, headers[i].offset) % 32) + 1
                  /\ headers[i + 1].offset > headers[i].offset

\* C24 witness: none was returned for an input in which the walk read an
\* extended tag in the last byte of an extension (the luminance code of
\* that block lying outside it), and stepped over blocks of length 0 up to
\* the last byte but one of another extension.
C24_Witness ==
  /\ Parsed
  /\ ~detector.brightness.found
  /\ \E i \in 1..Len(detector.reads) :
       /\ detector.reads[i].role = "extended_tag"
       /\ detector.reads[i].offset = BlockSize - 1
  /\ \E k \in 1..WholeExtensions(Edid) :
       LET headers == HeaderReads(k)
       IN  /\ Len(headers) > 2
           /\ headers[Len(headers)].offset = BlockSize - 2
           /\ headers[Len(headers) - 1].offset = BlockSize - 3

\* The instances of the registry whose EDID value yields a brightness, as
\* <<display, instance>> indices.
Yielding ==
  { d \in (0..(Len(scan.registry) - 1)) \X (0..(MaxInstances - 1)) :
      LET key == scan.registry[d[1] + 1]
      IN  /\ key.opens
          /\ d[2] < Len(key.instances)
          /\ key.instances[d[2] + 1] \in {"edid_1600", "edid_100", "edid_sdr"}
          /\ parse_hdr_metadata(EdidOf(key.instances[d[2] + 1])).found }

\* C25: a key or a value that cannot be opened or read keeps neither the
\* other instances of its display nor the other displays from being
\* examined: get_peak_brightness returns the brightness of the first
\* instance, in enumeration order, whose EDID value yields one, and none
\* only if no instance yields one.
C25_FirstYieldingInstance ==
  scan.pc = "done" =>
    IF Yielding = {} THEN ~scan.result.found
    ELSE LET first == CHOOSE a \in Yielding :
                        \A b \in Yielding : a = b \/ Before(a, b)
         IN  scan.result =
               parse_hdr_metadata(
                 EdidOf(scan.registry[first[1] + 1].instances[first[2] + 1]))

\* C26: after a successful call with set_readonly false the profile file
\* is writable, whether it was read-only before the call or not.
C26_WritableWithoutProtection ==
  (pc = "done" /\ result.success /\ ~set_readonly) =>
    /\ target.exists
    /\ ~target.ro

\* C26 witness: such a call succeeded on a file that was read-only before
\* it.
C26_Witness ==
  /\ pc = "done"
  /\ result.success
  /\ ~set_readonly
  /\ pre.target.ro
  /\ ~target.ro
  /\ target.bytes = NewBytes

\* C27: all along the loop over the request, and so at the no-op guard,
\* the working content equals the content read iff no change is recorded;
\* a success result carries a change at least and leaves a file that
\* differs from the file before the call; a "no changes" result leaves the
\* file as it was.
C27_ChangedIffRecorded ==
  /\ pc = "subst" => (content = original_content <=> changes_made = <<>>)
  /\ (pc = "done" /\ result.success) =>
       /\ result.changes # <<>>
       /\ target.bytes # pre.target.bytes
  /\ (pc = "done" /\ result.message = "no_changes") =>
       /\ changes_made = <<>>
       /\ target = pre.target

\* C27 witness: at the guard of a request for both settings, one of them
\* was changed and the other one was not.
C27_Witness ==
  /\ pc = "subst"
  /\ pending = {}
  /\ DOMAIN settings_to_apply = SettingIds
  /\ Len(changes_made) = 1
  /\ content # original_content
  /\ \A id \in SettingIds :
       ReSearch(SETTINGS[id].key, original_content) # None

\* C28: the main window never has two ConfigManager.apply_settings calls
\* under way at once, whenever the clicks come.
C28_OneCallInFlight == \A h, k \in gui.in_flight : h = k

\* C29: the cached path is at all times what the last find_config_file
\* call returned, none before any call: a search that finds nothing puts
\* none in the place of a cached path.  A get_current_values call made
\* without a cached path returns the empty mapping, and an apply_settings
\* call made without one reports "not found" and touches nothing.
C29_CachedPathIsLastSearch ==
  /\ [](config_path = search.result)
  /\ [][ ( /\ ~current_values.called
           /\ current_values'.called
           /\ config_path = NoPath )
         => current_values'.values = NoValues ]_vars
  /\ [][ (calls' = calls + 1 /\ config_path = NoPath)
         => /\ pc' = "done"
            /\ result'.message = "not_found"
            /\ UNCHANGED disk ]_vars

\* C29 witness: a search found nothing where a path was cached; after it
\* get_current_values returned the empty mapping and apply_settings
\* reported "not found".
C29_Witness ==
  /\ search.called
  /\ search.dropped = ConfigPath
  /\ config_path = NoPath
  /\ current_values.called
  /\ current_values.values = NoValues
  /\ pc = "done"
  /\ pre.config_path = NoPath
  /\ result.message = "not_found"

Waiting == waiter.pc \in {"check", "sleep"}
Returns == waiter.pc # "returned" /\ waiter'.pc = "returned"

\* C30: wait_for_game_to_close returns true only from a check that found
\* no game process, and false only from a check that found the process
\* with max_wait_time given and reached; so no timeout is evaluated before
\* a check was made, and a wait without max_wait_time ends only when a
\* check finds the process gone.  With max_wait_time given and time
\* advancing the wait ends, and a wait without it ends once a check finds
\* the process gone.
C30_WaitEndsAsObserved ==
  /\ [][Returns =>
          /\ waiter.pc = "check"
          /\ waiter'.checked
          /\ waiter'.ret <=> gui.game = 0
          /\ ~waiter'.ret =>
               /\ waiter.bounded
               /\ waiter.clock - waiter.start_time >= waiter.max_wait_time
          /\ ~waiter.bounded => gui.game = 0 ]_vars
  /\ [][(waiter.pc = "check" /\ waiter'.pc # "check" /\ gui.game = 0)
          => (waiter'.pc = "returned" /\ waiter'.ret)]_vars
  /\ (Waiting /\ waiter.bounded) ~> (waiter.pc = "returned")

\* C30 witness: a wait with the largest max_wait_time returned false after
\* it had slept, the process being there at every check.
C30_Witness ==
  /\ waiter.pc = "returned"
  /\ ~waiter.ret
  /\ waiter.bounded
  /\ waiter.max_wait_time = MaxWait
  /\ waiter.clock - waiter.start_time >= MaxWait
  /\ gui.game \in Pids
====
